---------------------------- MODULE Spec2Model ----------------------------
(***************************************************************************)
(* A model of the jaq filter evaluator (jaq-core/src/filter.rs), of the    *)
(* persistent list (jaq-core/src/rc_list.rs) and of the native filters of  *)
(* the standard library (jaq-std/src/lib.rs).                              *)
(*                                                                         *)
(* Values, results and filters are tagged tuples, tag first:               *)
(*   Val    : <<"Null">>, <<"Bool", b>>, <<"Int", i>>, <<"Str", cps>>,     *)
(*            <<"Arr", vals>>   (a string is its sequence of code points)  *)
(*   ValR   : <<"Ok", val>>, <<"Err", error>>                              *)
(*   Filter : <<"Id">>, <<"Pipe", l, bind, r>>, ...  (the enum's variants) *)
(* A stream (ValRs) is the finite sequence of the ValR it yields.          *)
(***************************************************************************)
EXTENDS Integers, Sequences, FiniteSets, TLC

VARIABLES
    prog,      \* run: the filter given to Filter::run
    cv,        \* run: the (Ctx, Val) pair given to Filter::run
    out,       \* run: the stream Filter::run returned, NotRun before the call
    nout,      \* run: the stream the jaq-std native filter returned
    rfilter,   \* Recurse.filter
    rctx,      \* Recurse.ctx
    rvals,     \* Recurse.vals, the worklist (top of the stack is the last element)
    remitted,  \* recurse: the items next() has returned so far
    rdone,     \* recurse: next() has returned None
    rroot,     \* recurse: the value Recurse::new was given
    rcollected, \* recurse: the stream of f the last next() collected before it returned
    iter,      \* consumer: the iterator Filter::run returned, NotRun before the call
    taken,     \* consumer: the items next() has returned so far
    rbegun,    \* consumer: the evaluation of the right side of a Comma has begun
    heap,      \* list: the allocated Node<T>, by address
    lst,       \* list: the List<T> handle (an address of heap)
    hist,      \* list: the elements given to cons, most recent first
    ret,       \* list: what the last operation returned
    stree,     \* subst: the filter subst is called on
    sargs,     \* subst: the argument slice
    sres,      \* subst: the filter subst returned, <<"None">> before the call
    str,       \* explode: the input string value
    arr,       \* explode: the result of explode, <<"None">> before the call
    sout,      \* implode: the result of implode, <<"None">> before the call
    isizeBits, \* explode: the width of isize on the target (32 or 64)
    range_arg, \* range: the value of $from the native filter was called with
    range_from, \* range: the captured from, a result (Ok(x) or an Err)
    range_to,  \* range: the captured to
    range_by,  \* range: the captured by
    range_ret, \* range: what the calls of next() have returned so far
    strong,    \* handles: the strong count of the Rc at each address of heap
    held       \* handles: the List<T> handles held, each with the elements seen when it was obtained

vars == <<prog, cv, out, nout, rfilter, rctx, rvals, remitted, rdone, rroot,
          rcollected, iter, taken, rbegun,
          heap, lst, hist, ret, stree, sargs, sres, str, arr, sout, isizeBits,
          range_arg, range_from, range_to, range_by, range_ret, strong, held>>

runVars == <<prog, cv, out, nout>>
recVars == <<rfilter, rctx, rvals, remitted, rdone, rroot, rcollected>>
pullVars == <<iter, taken, rbegun>>
listVars == <<heap, lst, hist, ret>>
substVars == <<stree, sargs, sres>>
strVars == <<str, arr, sout, isizeBits>>
rangeVars == <<range_arg, range_from, range_to, range_by, range_ret>>
rcVars == <<strong, held>>

None == <<"None">>

\* the stream of a call that has not been made
NotRun == <<None>>

-----------------------------------------------------------------------------
(* Values and results *)

ValNull == <<"Null">>
ValBool(b) == <<"Bool", b>>
ValInt(i) == <<"Int", i>>
ValStr(s) == <<"Str", s>>
ValArr(a) == <<"Arr", a>>

\* an object is the sequence of its <<key, value>> pairs, each key (the code
\* points of a string) at most once
ValObj(kvs) == <<"Obj", kvs>>

ObjHas(kvs, k) == \E i \in 1..Len(kvs) : kvs[i][1] = k

ObjGet(kvs, k) ==
    IF ObjHas(kvs, k) THEN kvs[CHOOSE i \in 1..Len(kvs) : kvs[i][1] = k][2]
    ELSE ValNull

ObjPut(kvs, k, y) ==
    IF ObjHas(kvs, k) THEN [i \in 1..Len(kvs) |-> IF kvs[i][1] = k THEN <<k, y>> ELSE kvs[i]]
    ELSE Append(kvs, <<k, y>>)

ObjRemove(kvs, k) ==
    LET other(kv) == kv[1] # k
    IN  SelectSeq(kvs, other)

Ok(v) == <<"Ok", v>>
Err(e) == <<"Err", e>>
IsOk(r) == r[1] = "Ok"
IsErr(r) == r[1] = "Err"

RECURSIVE Concat(_)
Concat(ss) ==
    IF ss = <<>> THEN <<>> ELSE Head(ss) \o Concat(Tail(ss))

Take(s, n) ==
    IF n >= Len(s) THEN s ELSE SubSeq(s, 1, n)

SeqReverse(s) ==
    [i \in 1..Len(s) |-> s[Len(s) + 1 - i]]

SelectOk(s) ==
    SelectSeq(s, IsOk)

\* the first Err of a stream that has one
FirstErr(s) ==
    s[CHOOSE i \in 1..Len(s) : IsErr(s[i]) /\ \A j \in 1..(i - 1) : IsOk(s[j])]

HasErr(s) ==
    \E i \in 1..Len(s) : IsErr(s[i])

\* Iterator::collect::<Result<Vec<_>, _>>(): the values, or the first error
Collect(s) ==
    IF HasErr(s) THEN FirstErr(s) ELSE Ok([i \in 1..Len(s) |-> s[i][2]])

as_bool(v) ==
    ~(v = ValNull \/ v = ValBool(FALSE))

as_int(v) ==
    IF v[1] = "Int" THEN Ok(v[2]) ELSE Err(<<"Type", v, "Int">>)

neg(v) ==
    IF v[1] = "Int" THEN Ok(ValInt(0 - v[2])) ELSE Err(<<"Neg", v>>)

MathOpRun(op, x, y) ==
    IF x[1] = "Int" /\ y[1] = "Int"
    THEN CASE op = "Add" -> Ok(ValInt(x[2] + y[2]))
           [] op = "Sub" -> Ok(ValInt(x[2] - y[2]))
           [] op = "Mul" -> Ok(ValInt(x[2] * y[2]))
    ELSE IF op = "Add" /\ x[1] = "Arr" /\ y[1] = "Arr"
    THEN Ok(ValArr(x[2] \o y[2]))
    ELSE Err(<<"MathOp", x, op, y>>)

\* the rank of a value's kind in the total order of values
KindRank(v) ==
    CASE v[1] = "Null" -> 0
      [] v[1] = "Bool" -> 1
      [] v[1] = "Int" -> 2
      [] v[1] = "Str" -> 3
      [] v[1] = "Arr" -> 4
      [] v[1] = "Obj" -> 5

RECURSIVE ValLess(_, _)
ValLess(x, y) ==
    IF KindRank(x) # KindRank(y) THEN KindRank(x) < KindRank(y)
    ELSE CASE x[1] = "Null" -> FALSE
           [] x[1] = "Bool" -> (~x[2]) /\ y[2]
           [] x[1] = "Int" -> x[2] < y[2]
           [] x[1] = "Str" ->
                \E i \in 1..(Len(x[2]) + 1) :
                    /\ i <= Len(y[2])
                    /\ \A j \in 1..(i - 1) : x[2][j] = y[2][j]
                    /\ (i = Len(x[2]) + 1 \/ x[2][i] < y[2][i])
           [] x[1] = "Arr" ->
                \E i \in 1..(Len(x[2]) + 1) :
                    /\ i <= Len(y[2])
                    /\ \A j \in 1..(i - 1) : x[2][j] = y[2][j]
                    /\ (i = Len(x[2]) + 1 \/ ValLess(x[2][i], y[2][i]))

OrdOpRun(op, x, y) ==
    CASE op = "Lt" -> ValLess(x, y)
      [] op = "Le" -> ValLess(x, y) \/ x = y
      [] op = "Gt" -> ValLess(y, x)
      [] op = "Ge" -> ValLess(y, x) \/ x = y
      [] op = "Eq" -> x = y
      [] op = "Ne" -> x # y

-----------------------------------------------------------------------------
(* The filter tree: enum Filter *)

Id == <<"Id">>
FilterInt(n) == <<"Int", n>>
FilterStr(s) == <<"Str", s>>
Array(f) == <<"Array", f>>
Try(f) == <<"Try", f>>
Neg(f) == <<"Neg", f>>
Pipe(l, bind, r) == <<"Pipe", l, bind, r>>
Comma(l, r) == <<"Comma", l, r>>
Alt(l, r) == <<"Alt", l, r>>
IfThenElse(if_thens, else_) == <<"IfThenElse", if_thens, else_>>
Reduce(xs, init, f) == <<"Reduce", xs, init, f>>
Path(f, path) == <<"Path", f, path>>
Logic(l, stop, r) == <<"Logic", l, stop, r>>
Math(l, op, r) == <<"Math", l, op, r>>
Ord(l, op, r) == <<"Ord", l, op, r>>
Empty == <<"Empty">>
Error == <<"Error">>
First(f) == <<"First", f>>
Last(f) == <<"Last", f>>
Recurse(f) == <<"Recurse", f>>
Limit(n, f) == <<"Limit", n, f>>
Range(from, until) == <<"Range", from, until>>
SkipCtx(n, f) == <<"SkipCtx", n, f>>
Var(v) == <<"Var", v>>
Arg(a) == <<"Arg", a>>

FilterFloat(x) == <<"Float", x>>
Object(kvs) == <<"Object", kvs>>
Assign(path, f) == <<"Assign", path, f>>
Update(path, f) == <<"Update", path, f>>
Length == <<"Length">>
Floor == <<"Floor">>
Round == <<"Round">>
Ceil == <<"Ceil">>
FromJson == <<"FromJson">>
ToJson == <<"ToJson">>
Keys == <<"Keys">>
Explode == <<"Explode">>
Implode == <<"Implode">>
AsciiDowncase == <<"AsciiDowncase">>
AsciiUpcase == <<"AsciiUpcase">>
Reverse == <<"Reverse">>
Sort == <<"Sort">>
SortBy(f) == <<"SortBy", f>>
Has(f) == <<"Has", f>>
Split(f) == <<"Split", f>>
Contains(f) == <<"Contains", f>>

\* the variants without a filter inside
LeafTags ==
    { "Id", "Int", "Float", "Str", "Empty", "Error", "Length", "Floor", "Round",
      "Ceil", "FromJson", "ToJson", "Keys", "Explode", "Implode", "AsciiDowncase",
      "AsciiUpcase", "Reverse", "Sort", "Var" }

\* the variants of the form V(Box<Self>)
UnaryTags ==
    { "Try", "Neg", "SortBy", "Has", "Split", "First", "Last", "Recurse", "Contains" }

\* the variants of the form V(Box<Self>, Box<Self>)
BinaryTags ==
    { "Comma", "Alt", "Assign", "Update", "Limit", "Range" }

\* the variants of the form V(Box<Self>, flag or operator, Box<Self>)
InfixTags ==
    { "Pipe", "Logic", "Math", "Ord" }

\* path parts: Part::Index(i) and Part::Range(from, until), each with its Opt
IndexPart(i, opt) == <<<<"Index", i>>, opt>>
RangePart(from, until, opt) == <<<<"Range", from, until>>, opt>>

\* `[]?`, the one path part of Filter::recurse(): (Part::Range(None, None), Opt::Optional)
IterPart(opt) == <<<<"Range", None, None>>, opt>>

\* `.[]?`
IterOpt == Path(Id, <<IterPart("Optional")>>)

\* `.[]`
IterStrict == Path(Id, <<IterPart("Essential")>>)

-----------------------------------------------------------------------------
(* The context: Ctx, a stack of bound values, the most recent first *)

CtxCons(y, ctx) == <<y>> \o ctx

CtxSkip(ctx, n) ==
    IF n >= Len(ctx) THEN <<>> ELSE SubSeq(ctx, n + 1, Len(ctx))

\* Ctx::get(n): Some(value) or None
CtxGet(ctx, n) ==
    IF n < Len(ctx) THEN ctx[n + 1] ELSE None

-----------------------------------------------------------------------------
(* Path parts: path::Part::collect and path::Opt::collect *)

\* Val::index: a string indexes an object, an integer an array (a negative
\* one from the end); what is not there is null
ValIndex(x, i) ==
    IF x[1] = "Obj" /\ i[1] = "Str" THEN Ok(ObjGet(x[2], i[2]))
    ELSE IF x[1] = "Arr" /\ i[1] = "Int"
    THEN LET n == IF i[2] < 0 THEN Len(x[2]) + i[2] ELSE i[2]
         IN  IF 0 <= n /\ n < Len(x[2]) THEN Ok(x[2][n + 1]) ELSE Ok(ValNull)
    ELSE Err(<<"Index", x, i>>)

\* the values of an array, or of an object in the order of its pairs
ValValues(x) ==
    IF x[1] = "Arr" THEN x[2] ELSE [i \in 1..Len(x[2]) |-> x[2][i][2]]

\* the values a part addresses in x, each Ok, or one Err; p is a part whose
\* index expressions have been run: <<"Index", values>> or <<"Range", None, None>>
PartCollect(p, x) ==
    CASE p[1] = "Index" -> [i \in 1..Len(p[2]) |-> ValIndex(x, p[2][i])]
      [] p[1] = "Range" /\ p[2] = None /\ p[3] = None ->
            IF x[1] \in {"Arr", "Obj"} THEN [i \in 1..Len(ValValues(x)) |-> Ok(ValValues(x)[i])]
            ELSE <<Err(<<"Iter", x>>)>>

\* Optional drops the errors, Essential fails with the first of them
OptCollect(opt, rs) ==
    IF opt = "Optional" THEN Collect(SelectOk(rs)) ELSE Collect(rs)

-----------------------------------------------------------------------------
(* Filter::run: the stream a filter yields on (ctx, val) *)

\* the one element that stands for a panic of the evaluator
Panic(msg) == <<"Panic", msg>>

RECURSIVE Run(_, _, _)
RECURSIVE SizeHintUpper(_, _, _)

\* each Ok(y) of the stream ls replaced by the stream r yields on y, each Err kept
FlatMapRun(ls, r, ctx) ==
    Concat([i \in 1..Len(ls) |->
        IF IsOk(ls[i]) THEN Run(r, ctx, ls[i][2]) ELSE <<ls[i]>>])

RunArray(f, ctx, val) ==
    LET c == Collect(Run(f, ctx, val))
    IN  <<IF IsOk(c) THEN Ok(ValArr(c[2])) ELSE c>>

\* faulty variant of RunTry: the first Err ends the stream
RunTryAbort(f, ctx, val) ==
    LET fs == Run(f, ctx, val)
        n == IF HasErr(fs)
             THEN CHOOSE i \in 1..Len(fs) : IsErr(fs[i]) /\ \A j \in 1..(i - 1) : IsOk(fs[j])
             ELSE Len(fs) + 1
    IN  SubSeq(fs, 1, n - 1)

RunTry(f, ctx, val) ==
    SelectSeq(Run(f, ctx, val), IsOk)

RunNeg(f, ctx, val) ==
    LET fs == Run(f, ctx, val)
    IN  [i \in 1..Len(fs) |-> IF IsOk(fs[i]) THEN neg(fs[i][2]) ELSE fs[i]]

\* faulty variant of RunPipe: the Err elements of l are dropped
RunPipeSkipErr(l, r, ctx, val) ==
    FlatMapRun(SelectSeq(Run(l, ctx, val), IsOk), r, ctx)

\* faulty variant of RunPipe: the first Err of l ends the stream
RunPipeAbort(l, r, ctx, val) ==
    LET ls == Run(l, ctx, val)
        n == IF HasErr(ls)
             THEN CHOOSE i \in 1..Len(ls) : IsErr(ls[i]) /\ \A j \in 1..(i - 1) : IsOk(ls[j])
             ELSE Len(ls)
    IN  FlatMapRun(SubSeq(ls, 1, n), r, ctx)

RunPipe(l, r, ctx, val) ==
    FlatMapRun(Run(l, ctx, val), r, ctx)

\* `l as $x | r`: with a size hint of at most one element, the single element
\* is taken without cloning the input, and a second element fails the assertion
RunPipeBind(l, r, ctx, val) ==
    LET ls == Run(l, ctx, val)
        each(y) == IF IsOk(y) THEN Run(r, CtxCons(y[2], ctx), val) ELSE <<y>>
    IN  IF SizeHintUpper(l, ctx, val) = 1 /\ Len(ls) >= 1
        THEN IF Len(ls) > 1 THEN <<Panic("assertion failed: l.next().is_none()")>>
             ELSE each(ls[1])
        ELSE Concat([i \in 1..Len(ls) |-> each(ls[i])])

\* faulty variant of RunComma: r is not run once l has yielded an Err
RunCommaUntilErr(l, r, ctx, val) ==
    IF HasErr(Run(l, ctx, val)) THEN Run(l, ctx, val)
    ELSE Run(l, ctx, val) \o Run(r, ctx, val)

RunComma(l, r, ctx, val) ==
    Run(l, ctx, val) \o Run(r, ctx, val)

AltKeep(y) == IsErr(y) \/ (IsOk(y) /\ as_bool(y[2]))

\* faulty variant of RunAlt: an Err of l counts as false
RunAltErrFalse(l, r, ctx, val) ==
    LET truthy(y) == IsOk(y) /\ as_bool(y[2])
        ls == SelectSeq(Run(l, ctx, val), truthy)
    IN  IF ls # <<>> THEN ls ELSE Run(r, ctx, val)

RunAlt(l, r, ctx, val) ==
    LET ls == SelectSeq(Run(l, ctx, val), AltKeep)
    IN  IF ls # <<>> THEN <<Head(ls)>> \o Tail(ls) ELSE Run(r, ctx, val)

RECURSIVE IfThenElseRun(_, _, _, _)
IfThenElseRun(if_thens, else_, ctx, val) ==
    IF if_thens = <<>> THEN Run(else_, ctx, val)
    ELSE LET if_ == Head(if_thens)[1]
             then == Head(if_thens)[2]
             vs == Run(if_, ctx, val)
         IN  Concat([i \in 1..Len(vs) |->
                 IF IsErr(vs[i]) THEN <<vs[i]>>
                 ELSE IF as_bool(vs[i][2]) THEN Run(then, ctx, val)
                 ELSE IfThenElseRun(Tail(if_thens), else_, ctx, val)])

\* Option<&Filter>::map(|f| f.run(cv).collect()).transpose()
RunIndexOpt(f, ctx, val) ==
    IF f = None THEN Ok(None) ELSE Collect(Run(f, ctx, val))

\* path::Part<Filter>::run_indices: the part with its index expressions run
\* and collected, or the first error
PartRunIndices(p, ctx, val) ==
    IF p[1] = "Index"
    THEN LET i == Collect(Run(p[2], ctx, val))
         IN  IF IsErr(i) THEN i ELSE Ok(<<"Index", i[2]>>)
    ELSE LET from == RunIndexOpt(p[2], ctx, val)
             until == RunIndexOpt(p[3], ctx, val)
         IN  IF IsErr(from) THEN from
             ELSE IF IsErr(until) THEN until
             ELSE Ok(<<"Range", from[2], until[2]>>)

\* Path::collect: the values the path addresses, or the first error
RECURSIVE PathFold(_, _, _, _)
PathFold(parts, ctx, val, acc) ==
    IF parts = <<>> THEN Ok(acc)
    ELSE LET p == PartRunIndices(Head(parts)[1], ctx, val)
             opt == Head(parts)[2]
             c == OptCollect(opt, Concat([i \in 1..Len(acc) |-> PartCollect(p[2], acc[i])]))
         IN  IF IsErr(p) THEN p
             ELSE IF IsErr(c) THEN c
             ELSE PathFold(Tail(parts), ctx, val, c[2])

PathCollect(path, ctx, val, init) ==
    LET c == Collect(Run(init, ctx, val))
    IN  IF IsErr(c) THEN c ELSE PathFold(path, ctx, val, c[2])

RunPath(f, path, ctx, val) ==
    LET y == PathCollect(path, ctx, val, f)
    IN  IF IsOk(y) THEN [i \in 1..Len(y[2]) |-> Ok(y[2][i])] ELSE <<y>>

\* faulty variant of RunLogic: r is run for every Ok of l, the stopping ones
\* included
RunLogicNoStop(l, stop, r, ctx, val) ==
    LET ls == Run(l, ctx, val)
        rs == Run(r, ctx, val)
    IN  Concat([i \in 1..Len(ls) |->
            IF IsErr(ls[i]) THEN <<ls[i]>>
            ELSE [j \in 1..Len(rs) |->
                     IF IsOk(rs[j]) THEN Ok(ValBool(as_bool(rs[j][2]))) ELSE rs[j]]])

\* `l and r` (stop = FALSE) and `l or r` (stop = TRUE)
RunLogic(l, stop, r, ctx, val) ==
    LET ls == Run(l, ctx, val)
        rs == Run(r, ctx, val)
    IN  Concat([i \in 1..Len(ls) |->
            IF IsErr(ls[i]) THEN <<ls[i]>>
            ELSE IF as_bool(ls[i][2]) = stop THEN <<Ok(ValBool(stop))>>
            ELSE [j \in 1..Len(rs) |->
                     IF IsOk(rs[j]) THEN Ok(ValBool(as_bool(rs[j][2]))) ELSE rs[j]]])

\* faulty variant of Cartesian: the path for one element on the right is taken whenever
\* the right yields anything
CartesianFirstOnly(l, r, ctx, val) ==
    LET ls == Run(l, ctx, val)
        rs == Run(r, ctx, val)
    IN  IF Len(rs) >= 1
        THEN [i \in 1..Len(ls) |-> <<ls[i], rs[1]>>]
        ELSE <<>>

\* Filter::cartesian: the pairs (l's element, r's element), l's order first;
\* with exactly one element on the right, l is mapped without being cloned
Cartesian(l, r, ctx, val) ==
    LET ls == Run(l, ctx, val)
        rs == Run(r, ctx, val)
    IN  IF Len(rs) = 1
        THEN [i \in 1..Len(ls) |-> <<ls[i], rs[1]>>]
        ELSE Concat([i \in 1..Len(ls) |-> [j \in 1..Len(rs) |-> <<ls[i], rs[j]>>]])

RunMath(l, op, r, ctx, val) ==
    LET ps == Cartesian(l, r, ctx, val)
    IN  [i \in 1..Len(ps) |->
            IF IsErr(ps[i][1]) THEN ps[i][1]
            ELSE IF IsErr(ps[i][2]) THEN ps[i][2]
            ELSE MathOpRun(op, ps[i][1][2], ps[i][2][2])]

RunOrd(l, op, r, ctx, val) ==
    LET ps == Cartesian(l, r, ctx, val)
    IN  [i \in 1..Len(ps) |->
            IF IsErr(ps[i][1]) THEN ps[i][1]
            ELSE IF IsErr(ps[i][2]) THEN ps[i][2]
            ELSE Ok(ValBool(OrdOpRun(op, ps[i][1][2], ps[i][2][2])))]

RunFirst(f, ctx, val) ==
    Take(Run(f, ctx, val), 1)

\* faulty variant of RunLast: the last element, whatever came before it
RunLastOfAll(f, ctx, val) ==
    LET fs == Run(f, ctx, val)
    IN  IF fs = <<>> THEN <<>> ELSE <<fs[Len(fs)]>>

RunLast(f, ctx, val) ==
    LET fs == Run(f, ctx, val)
    IN  IF HasErr(fs) THEN <<FirstErr(fs)>>
        ELSE IF fs = <<>> THEN <<>> ELSE <<fs[Len(fs)]>>

Max(a, b) == IF a >= b THEN a ELSE b

\* faulty variant of RunLimit: the count is cast to usize without max(0, n), so that
\* a negative count lets everything through
RunLimitNoMax(n, f, ctx, val) ==
    LET ns == Run(n, ctx, val)
        ni(i) == IF IsOk(ns[i]) THEN as_int(ns[i][2]) ELSE ns[i]
    IN  Concat([i \in 1..Len(ns) |->
            IF IsOk(ni(i))
            THEN IF ni(i)[2] < 0 THEN Run(f, ctx, val)
                 ELSE Take(Run(f, ctx, val), ni(i)[2])
            ELSE <<ni(i)>>])

RunLimit(n, f, ctx, val) ==
    LET ns == Run(n, ctx, val)
        ni(i) == IF IsOk(ns[i]) THEN as_int(ns[i][2]) ELSE ns[i]
    IN  Concat([i \in 1..Len(ns) |->
            IF IsOk(ni(i)) THEN Take(Run(f, ctx, val), Max(0, ni(i)[2]))
            ELSE <<ni(i)>>])

RunRange(from, until, ctx, val) ==
    LET prod == Cartesian(from, until, ctx, val)
        range(p) ==
            IF IsErr(p[1]) THEN p[1]
            ELSE IF IsErr(as_int(p[1][2])) THEN as_int(p[1][2])
            ELSE IF IsErr(p[2]) THEN p[2]
            ELSE IF IsErr(as_int(p[2][2])) THEN as_int(p[2][2])
            ELSE Ok(<<as_int(p[1][2])[2], as_int(p[2][2])[2]>>)
    IN  Concat([i \in 1..Len(prod) |->
            IF IsOk(range(prod[i]))
            THEN LET lo == range(prod[i])[2][1]
                     hi == range(prod[i])[2][2]
                 IN  [k \in 1..(hi - lo) |-> Ok(ValInt(lo + k - 1))]
            ELSE <<range(prod[i])>>])

\* faulty variant of RecurseNext: an Err ends the iteration, the worklist is dropped
RecurseNextErrEnds(f, ctx, vals) ==
    LET v == vals[Len(vals)]
        rest == SubSeq(vals, 1, Len(vals) - 1)
    IN  IF IsOk(v)
        THEN <<v, rest \o SeqReverse(Run(f, ctx, v[2]))>>
        ELSE <<v, <<>>>>

\* faulty variant of RecurseNext: the outputs of f are appended without the reversal
RecurseNextNoReverse(f, ctx, vals) ==
    LET v == vals[Len(vals)]
        rest == SubSeq(vals, 1, Len(vals) - 1)
    IN  IF IsOk(v)
        THEN <<v, rest \o Run(f, ctx, v[2])>>
        ELSE <<v, rest>>

\* Recurse::next on a non-empty worklist: <<the item returned, the new worklist>>
RecurseNext(f, ctx, vals) ==
    LET v == vals[Len(vals)]
        rest == SubSeq(vals, 1, Len(vals) - 1)
    IN  IF IsOk(v)
        THEN <<v, rest \o SeqReverse(Run(f, ctx, v[2]))>>
        ELSE <<v, rest>>

\* the items a Recurse iterator returns until its worklist is empty
RECURSIVE RecurseDrain(_, _, _)
RecurseDrain(f, ctx, vals) ==
    IF vals = <<>> THEN <<>>
    ELSE LET s == RecurseNext(f, ctx, vals)
         IN  <<s[1]>> \o RecurseDrain(f, ctx, s[2])

\* Recurse::new and its iteration
RunRecurse(f, ctx, val) ==
    RecurseDrain(f, ctx, <<Ok(val)>>)

\* Filter::reduce_step
ReduceStep(f, ctx, acc, x) ==
    Collect(Concat([i \in 1..Len(acc) |-> Run(f, CtxCons(x, ctx), acc[i])]))

\* faulty variant of ReduceFold: an Err of xs is passed over
RECURSIVE ReduceFoldSkipErr(_, _, _, _)
ReduceFoldSkipErr(f, ctx, acc, xs) ==
    IF xs = <<>> THEN Ok(acc)
    ELSE IF IsErr(Head(xs)) THEN ReduceFoldSkipErr(f, ctx, acc, Tail(xs))
    ELSE LET step == ReduceStep(f, ctx, acc, Head(xs)[2])
         IN  IF IsErr(step) THEN step ELSE ReduceFoldSkipErr(f, ctx, step[2], Tail(xs))

\* xs.try_fold(init, |acc, x| f.reduce_step(ctx, acc, &x?))
RECURSIVE ReduceFold(_, _, _, _)
ReduceFold(f, ctx, acc, xs) ==
    IF xs = <<>> THEN Ok(acc)
    ELSE IF IsErr(Head(xs)) THEN Head(xs)
    ELSE LET step == ReduceStep(f, ctx, acc, Head(xs)[2])
         IN  IF IsErr(step) THEN step ELSE ReduceFold(f, ctx, step[2], Tail(xs))

RunReduce(xs, init, f, ctx, val) ==
    LET i0 == Collect(Run(init, ctx, val))
        y == IF IsErr(i0) THEN i0 ELSE ReduceFold(f, ctx, i0[2], Run(xs, ctx, val))
    IN  IF IsOk(y) THEN [i \in 1..Len(y[2]) |-> Ok(y[2][i])] ELSE <<y>>

RunVar(v, ctx) ==
    IF CtxGet(ctx, v) = None
    THEN <<Panic("called Option::unwrap() on a None value")>>
    ELSE <<Ok(CtxGet(ctx, v))>>

\* the replace closures, by the place that builds them: a closure is the
\* variables it captures
\*   Assign:                 |_| f.run(cv)
\*   Update:                 |v| f.run((ctx, v))
\*   update of Path:         |v| path.run((ctx, v), g)
\*   update of Pipe, Recurse: |v| r.update((ctx, v), g)
ReplaceConst(f, ctx, val) == <<"Const", f, ctx, val>>
ReplaceRun(f, ctx) == <<"RunF", f, ctx>>
ReplacePath(path, ctx, g) == <<"PathRun", path, ctx, g>>
ReplaceUpdate(r, ctx, g) == <<"Upd", r, ctx, g>>

RECURSIVE Upd(_, _, _, _)
RECURSIVE Apply(_, _)

RunAssign(path, f, ctx, val) ==
    Upd(path, ctx, val, ReplaceConst(f, ctx, val))

RunUpdate(path, f, ctx, val) ==
    Upd(path, ctx, val, ReplaceRun(f, ctx))

\* MultiProduct: the tuples that take one element of each sequence of ss, the
\* last sequence varying fastest; ss is not empty
RECURSIVE multi_cartesian_product(_)
multi_cartesian_product(ss) ==
    IF Len(ss) = 1 THEN [i \in 1..Len(ss[1]) |-> <<ss[1][i]>>]
    ELSE LET rest == multi_cartesian_product(Tail(ss))
         IN  Concat([i \in 1..Len(ss[1]) |->
                 [j \in 1..Len(rest) |-> <<ss[1][i]>> \o rest[j]]])

\* Val::str: the string of a string value
StrOf(v) ==
    IF v[1] = "Str" THEN Ok(v[2]) ELSE Err(<<"Type", v, "Str">>)

\* |(k, v)| Ok((k?.str()?, v?))
ObjectEntry(kv) ==
    IF ~IsOk(kv[1]) THEN kv[1]
    ELSE IF IsErr(StrOf(kv[1][2])) THEN StrOf(kv[1][2])
    ELSE IF ~IsOk(kv[2]) THEN kv[2]
    ELSE Ok(<<StrOf(kv[1][2])[2], kv[2][2]>>)

\* the map collected from entries: a key that comes again takes the later value
RECURSIVE MapFromEntries(_)
MapFromEntries(es) ==
    IF es = <<>> THEN <<>>
    ELSE LET e == es[Len(es)]
         IN  ObjPut(MapFromEntries(SubSeq(es, 1, Len(es) - 1)), e[1], e[2])

\* the object of one tuple of (key, value) results, or the first error
ObjectTuple(kvs) ==
    LET c == Collect([i \in 1..Len(kvs) |-> ObjectEntry(kvs[i])])
    IN  IF IsErr(c) THEN c ELSE Ok(ValObj(MapFromEntries(c[2])))

\* faulty variant of RunObject: a tuple with an error yields nothing
RunObjectSkipErr(o, ctx, val) ==
    IF o = <<>> THEN <<Ok(ValObj(<<>>))>>
    ELSE LET ts == multi_cartesian_product(
                       [i \in 1..Len(o) |-> Cartesian(o[i][1], o[i][2], ctx, val)])
         IN  SelectOk([t \in 1..Len(ts) |-> ObjectTuple(ts[t])])

\* `{k1: v1, ...}`: one object, or one error, per tuple of the product of the
\* pairs' cartesian products, each collected when run is called
RunObject(o, ctx, val) ==
    IF o = <<>> THEN <<Ok(ValObj(<<>>))>>
    ELSE LET ts == multi_cartesian_product(
                       [i \in 1..Len(o) |-> Cartesian(o[i][1], o[i][2], ctx, val)])
         IN  [t \in 1..Len(ts) |-> ObjectTuple(ts[t])]

Run(f, ctx, val) ==
    CASE f[1] = "Id" -> <<Ok(val)>>
      [] f[1] = "Int" -> <<Ok(ValInt(f[2]))>>
      [] f[1] = "Str" -> <<Ok(ValStr(f[2]))>>
      [] f[1] = "Array" ->
            IF f[2] = None THEN <<Ok(ValArr(<<>>))>> ELSE RunArray(f[2], ctx, val)
      [] f[1] = "Object" -> RunObject(f[2], ctx, val)
      [] f[1] = "Try" -> RunTry(f[2], ctx, val)
      [] f[1] = "Neg" -> RunNeg(f[2], ctx, val)
      [] f[1] = "Pipe" ->
            IF f[3] THEN RunPipeBind(f[2], f[4], ctx, val)
            ELSE RunPipe(f[2], f[4], ctx, val)
      [] f[1] = "Comma" -> RunComma(f[2], f[3], ctx, val)
      [] f[1] = "Alt" -> RunAlt(f[2], f[3], ctx, val)
      [] f[1] = "IfThenElse" -> IfThenElseRun(f[2], f[3], ctx, val)
      [] f[1] = "Path" -> RunPath(f[2], f[3], ctx, val)
      [] f[1] = "Logic" -> RunLogic(f[2], f[3], f[4], ctx, val)
      [] f[1] = "Math" -> RunMath(f[2], f[3], f[4], ctx, val)
      [] f[1] = "Ord" -> RunOrd(f[2], f[3], f[4], ctx, val)
      [] f[1] = "Empty" -> <<>>
      [] f[1] = "Error" -> <<Err(<<"Val", val>>)>>
      [] f[1] = "First" -> RunFirst(f[2], ctx, val)
      [] f[1] = "Last" -> RunLast(f[2], ctx, val)
      [] f[1] = "Limit" -> RunLimit(f[2], f[3], ctx, val)
      [] f[1] = "Range" -> RunRange(f[2], f[3], ctx, val)
      [] f[1] = "Recurse" -> RunRecurse(f[2], ctx, val)
      [] f[1] = "Reduce" -> RunReduce(f[2], f[3], f[4], ctx, val)
      [] f[1] = "SkipCtx" -> Run(f[3], CtxSkip(ctx, f[2]), val)
      [] f[1] = "Var" -> RunVar(f[2], ctx)
      [] f[1] = "Arg" -> <<Panic("BUG: unsubstituted argument encountered")>>
      [] f[1] = "Assign" -> RunAssign(f[2], f[3], ctx, val)
      [] f[1] = "Update" -> RunUpdate(f[2], f[3], ctx, val)

-----------------------------------------------------------------------------
(* Path::run and path::Part::run: the update of the slots a path addresses *)

RECURSIVE PartRun(_, _, _)

\* the slots of the sequence elems, in order, each replaced by the first
\* output of the rest of the path on it and removed when there is none:
\* Ok(the new sequence) or the first error
RECURSIVE MapSlots(_, _, _)
MapSlots(elems, rest, g) ==
    IF elems = <<>> THEN Ok(<<>>)
    ELSE LET y == PartRun(rest, Head(elems), g)
             more == MapSlots(Tail(elems), rest, g)
         IN  IF y # <<>> /\ IsErr(y[1]) THEN y[1]
             ELSE IF IsErr(more) THEN more
             ELSE IF y = <<>> THEN more
             ELSE Ok(<<y[1][2]>> \o more[2])

\* the same for the values of an object; a pair whose value has no
\* replacement is removed
RECURSIVE MapPairs(_, _, _)
MapPairs(kvs, rest, g) ==
    IF kvs = <<>> THEN Ok(<<>>)
    ELSE LET y == PartRun(rest, Head(kvs)[2], g)
             more == MapPairs(Tail(kvs), rest, g)
         IN  IF y # <<>> /\ IsErr(y[1]) THEN y[1]
             ELSE IF IsErr(more) THEN more
             ELSE IF y = <<>> THEN more
             ELSE Ok(<<<<Head(kvs)[1], y[1][2]>>>> \o more[2])

\* a part that does not apply to v: Optional leaves v as it is
PartMismatch(opt, v, e) ==
    IF opt = "Optional" THEN Ok(v) ELSE Err(e)

\* the slot of v at the index i updated
IndexUpdate(i, opt, v, rest, g) ==
    IF v[1] = "Obj" /\ i[1] = "Str"
    THEN LET y == PartRun(rest, ObjGet(v[2], i[2]), g)
         IN  IF y = <<>> THEN Ok(ValObj(ObjRemove(v[2], i[2])))
             ELSE IF IsErr(y[1]) THEN y[1]
             ELSE Ok(ValObj(ObjPut(v[2], i[2], y[1][2])))
    ELSE IF v[1] = "Arr" /\ i[1] = "Int"
    THEN LET n == IF i[2] < 0 THEN Len(v[2]) + i[2] ELSE i[2]
             y == PartRun(rest, v[2][n + 1], g)
         IN  IF ~(0 <= n /\ n < Len(v[2])) THEN PartMismatch(opt, v, <<"IndexOutOfBounds", i>>)
             ELSE IF y = <<>>
             THEN Ok(ValArr(SubSeq(v[2], 1, n) \o SubSeq(v[2], n + 2, Len(v[2]))))
             ELSE IF IsErr(y[1]) THEN y[1]
             ELSE Ok(ValArr([k \in 1..Len(v[2]) |-> IF k = n + 1 THEN y[1][2] ELSE v[2][k]]))
    ELSE PartMismatch(opt, v, <<"Index", v, i>>)

\* the indices of an Index part, one after the other
RECURSIVE IndexFold(_, _, _, _, _)
IndexFold(idxs, opt, v, rest, g) ==
    IF idxs = <<>> THEN Ok(v)
    ELSE LET y == IndexUpdate(Head(idxs), opt, v, rest, g)
         IN  IF IsErr(y) THEN y ELSE IndexFold(Tail(idxs), opt, y[2], rest, g)

\* v with the slots the part p addresses updated: one ValR
PartUpdate(p, opt, v, rest, g) ==
    CASE p[1] = "Index" -> IndexFold(p[2], opt, v, rest, g)
      [] p[1] = "Range" /\ p[2] = None /\ p[3] = None ->
            IF v[1] = "Arr"
            THEN LET y == MapSlots(v[2], rest, g)
                 IN  IF IsErr(y) THEN y ELSE Ok(ValArr(y[2]))
            ELSE IF v[1] = "Obj"
            THEN LET y == MapPairs(v[2], rest, g)
                 IN  IF IsErr(y) THEN y ELSE Ok(ValObj(y[2]))
            ELSE PartMismatch(opt, v, <<"Iter", v>>)

\* path::Part::run: past the last part the replacement itself, before it the
\* one value with the slots of the first part updated
PartRun(parts, v, g) ==
    IF parts = <<>> THEN Apply(g, v)
    ELSE <<PartUpdate(Head(parts)[1], Head(parts)[2], v, Tail(parts), g)>>

\* Path::run: all index expressions are run on (ctx, v) first
PathRun(path, ctx, v, g) ==
    LET ps == Collect([i \in 1..Len(path) |-> PartRunIndices(path[i][1], ctx, v)])
    IN  IF IsErr(ps) THEN <<ps>>
        ELSE PartRun([i \in 1..Len(path) |-> <<ps[2][i], path[i][2]>>], v, g)

-----------------------------------------------------------------------------
(* Filter::update *)

\* calling a replace closure on v
Apply(g, v) ==
    CASE g[1] = "Const" -> Run(g[2], g[3], g[4])
      [] g[1] = "RunF" -> Run(g[2], g[3], v)
      [] g[1] = "PathRun" -> PathRun(g[2], g[3], v, g[4])
      [] g[1] = "Upd" -> Upd(g[2], g[3], v, g[4])

\* faulty variant of UpdId: the input stays in the stream beside its replacement
UpdIdKeepsInput(val, g) == <<Ok(val)>> \o Apply(g, val)

UpdId(val, g) == Apply(g, val)

UpdPath(l, path, ctx, val, g) ==
    Upd(l, ctx, val, ReplacePath(path, ctx, g))

UpdPipe(l, r, ctx, val, g) ==
    Upd(l, ctx, val, ReplaceUpdate(r, ctx, g))

UpdPipeBind(l, r, ctx, val, g) ==
    LET ls == Run(l, ctx, val)
    IN  Concat([i \in 1..Len(ls) |->
            IF IsOk(ls[i]) THEN Upd(r, CtxCons(ls[i][2], ctx), val, g) ELSE <<ls[i]>>])

\* faulty variant of UpdComma: the outputs of l.update are not given to r.update
UpdCommaLeftOnly(l, r, ctx, val, g) ==
    Upd(l, ctx, val, g)

UpdComma(l, r, ctx, val, g) ==
    LET ls == Upd(l, ctx, val, g)
    IN  Concat([i \in 1..Len(ls) |->
            IF IsOk(ls[i]) THEN Upd(r, ctx, ls[i][2], g) ELSE <<ls[i]>>])

RECURSIVE IfThenElseUpd(_, _, _, _, _)
IfThenElseUpd(if_thens, else_, ctx, val, g) ==
    IF if_thens = <<>> THEN Upd(else_, ctx, val, g)
    ELSE LET if_ == Head(if_thens)[1]
             then == Head(if_thens)[2]
             vs == Run(if_, ctx, val)
         IN  Concat([i \in 1..Len(vs) |->
                 IF IsErr(vs[i]) THEN <<vs[i]>>
                 ELSE IF as_bool(vs[i][2]) THEN Upd(then, ctx, val, g)
                 ELSE IfThenElseUpd(Tail(if_thens), else_, ctx, val, g)])

\* faulty variant of UpdRecurse: the values l addresses are replaced before
\* the value itself
UpdRecurseChildrenFirst(l, ctx, val, g) ==
    LET vs == Upd(l, ctx, val, ReplaceUpdate(Recurse(l), ctx, g))
    IN  Concat([i \in 1..Len(vs) |->
            IF IsOk(vs[i]) THEN Apply(g, vs[i][2]) ELSE <<vs[i]>>])

UpdRecurse(l, ctx, val, g) ==
    LET vs == Apply(g, val)
    IN  Concat([i \in 1..Len(vs) |->
            IF IsOk(vs[i])
            THEN Upd(l, ctx, vs[i][2], ReplaceUpdate(Recurse(l), ctx, g))
            ELSE <<vs[i]>>])

\* faulty variant of UpdEmpty: empty addresses nothing and yields nothing
UpdEmptyNone(val) == <<>>

UpdEmpty(val) == <<Ok(val)>>

Upd(f, ctx, val, g) ==
    CASE f[1] = "Id" -> UpdId(val, g)
      [] f[1] = "Path" -> UpdPath(f[2], f[3], ctx, val, g)
      [] f[1] = "Pipe" ->
            IF f[3] THEN UpdPipeBind(f[2], f[4], ctx, val, g)
            ELSE UpdPipe(f[2], f[4], ctx, val, g)
      [] f[1] = "Comma" -> UpdComma(f[2], f[3], ctx, val, g)
      [] f[1] = "IfThenElse" -> IfThenElseUpd(f[2], f[3], ctx, val, g)
      [] f[1] = "Recurse" -> UpdRecurse(f[2], ctx, val, g)
      [] f[1] = "Empty" -> UpdEmpty(val)
      [] OTHER -> <<Panic("not yet implemented")>>

\* The iterators that run builds, as states: what has been taken from each
\* and what each still holds.
\*   Vec      once, empty, Option and Vec iterators: the items left
\*   Filter   filter(pred) over inner
\*   Map      map(fn) over inner
\*   Chain    a.chain(b); a is None once it has returned None
\*   TakeN    take(n) over inner, n the number still allowed
\*   FlatMap  flat_map(fn) over outer; outer is None once it has returned
\*            None (Fuse), front the stream of the element being expanded
\*   Product  itertools' cartesian_product of a and the Vec borig, with fn
\*            mapped over the pairs; acur the element of a being paired,
\*            b what is left of borig for it
\*   Rec      Recurse with its worklist vals
ItVec(s) == <<"Vec", s>>
ItFilter(pred, inner) == <<"Filter", pred, inner>>
ItMap(fn, inner) == <<"Map", fn, inner>>
ItChain(a, b) == <<"Chain", a, b>>
ItTake(n, inner) == <<"TakeN", n, inner>>
ItFlatMap(fn, outer, front) == <<"FlatMap", fn, outer, front>>
ItProduct(fn, a, acur, b, borig) == <<"Product", fn, a, acur, b, borig>>
ItRec(f, ctx, vals) == <<"Rec", f, ctx, vals>>

RECURSIVE Build(_, _, _)
RECURSIVE ItNext(_)
RECURSIVE ItHint(_)

\* the closures of map and of filter, applied to the item y
ItFn(fn, y) ==
    CASE fn[1] = "IsOk" -> IsOk(y)
      [] fn[1] = "AltKeep" -> AltKeep(y)
      [] fn[1] = "Neg" -> IF IsOk(y) THEN neg(y[2]) ELSE y
      [] fn[1] = "AsInt" -> IF IsOk(y) THEN as_int(y[2]) ELSE y
      [] fn[1] = "AsBool" -> IF IsOk(y) THEN Ok(ValBool(as_bool(y[2]))) ELSE y

\* the closures mapped over the pairs of cartesian: op.run(x?, y?),
\* Ok(Val::Bool(op.run(&x?, &y?))) and Ok((l?.as_int()?, u?.as_int()?))
PairFn(fn, x, y) ==
    CASE fn[1] = "Math" ->
            IF IsErr(x) THEN x ELSE IF IsErr(y) THEN y ELSE MathOpRun(fn[2], x[2], y[2])
      [] fn[1] = "Ord" ->
            IF IsErr(x) THEN x ELSE IF IsErr(y) THEN y
            ELSE Ok(ValBool(OrdOpRun(fn[2], x[2], y[2])))
      [] fn[1] = "Range" ->
            IF IsErr(x) THEN x
            ELSE IF IsErr(as_int(x[2])) THEN as_int(x[2])
            ELSE IF IsErr(y) THEN y
            ELSE IF IsErr(as_int(y[2])) THEN as_int(y[2])
            ELSE Ok(<<as_int(x[2])[2], as_int(y[2])[2]>>)

\* Filter::cartesian as an iterator: r is collected at once; one element on
\* the right maps l, otherwise cartesian_product takes the first element of l
\* when it is built
CartesianIt(fn, l, r, ctx, val) ==
    LET product(a, rs) == ItProduct(fn, a[2], a[1], rs, rs)
        cartesian(lit, rs) ==
            IF Len(rs) = 1 THEN ItMap(<<"PairWith", fn, rs[1]>>, lit)
            ELSE product(ItNext(lit), rs)
    IN  cartesian(Build(l, ctx, val), Run(r, ctx, val))

\* the closures of flat_map: the filter they run for the item y with its
\* context and input, None where they run no filter
FlatRuns(fn, y) ==
    CASE ~IsOk(y) -> None
      [] fn[1] = "Pipe" -> <<"Run", fn[2], fn[3], y[2]>>
      [] fn[1] = "Bind" -> <<"Run", fn[2], CtxCons(y[2], fn[3]), fn[4]>>
      [] fn[1] = "IfThen" ->
            IF as_bool(y[2]) THEN <<"Run", fn[3], fn[5], fn[6]>>
            ELSE <<"Run", IfThenElse(fn[2], fn[4]), fn[5], fn[6]>>
      [] fn[1] = "Logic" ->
            IF as_bool(y[2]) = fn[2] THEN None ELSE <<"Run", fn[3], fn[4], fn[5]>>
      [] fn[1] = "Limit" -> <<"Run", fn[2], fn[3], fn[4]>>
      [] fn[1] = "Range" -> None

\* the stream that flat_map expands the item y to, given the iterator b of
\* the filter the closure runs
FlatStream(fn, y, b) ==
    CASE ~IsOk(y) -> ItVec(<<y>>)
      [] fn[1] \in {"Pipe", "Bind", "IfThen"} -> b
      [] fn[1] = "Logic" ->
            IF as_bool(y[2]) = fn[2] THEN ItVec(<<Ok(ValBool(fn[2]))>>)
            ELSE ItMap(<<"AsBool">>, b)
      [] fn[1] = "Limit" -> ItTake(Max(0, y[2]), b)
      [] fn[1] = "Range" ->
            ItVec([k \in 1..(y[2][2] - y[2][1]) |-> Ok(ValInt(y[2][1] + k - 1))])

ItFlat(fn, y) ==
    FlatStream(fn, y, IF FlatRuns(fn, y) = None THEN None
                      ELSE Build(FlatRuns(fn, y)[2], FlatRuns(fn, y)[3], FlatRuns(fn, y)[4]))

\* the upper bound None of a size hint
Unbounded == 0 - 1

\* faulty variant of RecurseSizeHint: the length of the worklist as the upper bound
RecurseSizeHintLen(vals) ==
    Len(vals)

\* Recurse::size_hint, the upper bound
RecurseSizeHint(vals) ==
    IF vals = <<>> THEN 0 ELSE Unbounded

\* Iterator::next: <<the item returned or None, the iterator afterwards>>
ItNext(it) ==
    CASE it[1] = "Vec" ->
            IF it[2] = <<>> THEN <<None, it>> ELSE <<Head(it[2]), ItVec(Tail(it[2]))>>
      [] it[1] = "Filter" ->
            LET y == ItNext(it[3])
            IN  IF y[1] = None THEN <<None, ItFilter(it[2], y[2])>>
                ELSE IF ItFn(it[2], y[1]) THEN <<y[1], ItFilter(it[2], y[2])>>
                ELSE ItNext(ItFilter(it[2], y[2]))
      [] it[1] = "Map" ->
            LET y == ItNext(it[3])
            IN  IF y[1] = None THEN <<None, ItMap(it[2], y[2])>>
                ELSE IF it[2][1] = "PairWith"
                THEN <<PairFn(it[2][2], y[1], it[2][3]), ItMap(it[2], y[2])>>
                ELSE <<ItFn(it[2], y[1]), ItMap(it[2], y[2])>>
      [] it[1] = "Chain" ->
            IF it[2] # None
            THEN LET y == ItNext(it[2])
                 IN  IF y[1] # None THEN <<y[1], ItChain(y[2], it[3])>>
                     ELSE ItNext(ItChain(None, it[3]))
            ELSE LET y == ItNext(it[3])
                 IN  <<y[1], ItChain(None, y[2])>>
      [] it[1] = "TakeN" ->
            IF it[2] = 0 THEN <<None, it>>
            ELSE LET y == ItNext(it[3])
                 IN  <<y[1], ItTake(it[2] - 1, y[2])>>
      [] it[1] = "FlatMap" ->
            IF it[4] # None
            THEN LET y == ItNext(it[4])
                 IN  IF y[1] # None THEN <<y[1], ItFlatMap(it[2], it[3], y[2])>>
                     ELSE ItNext(ItFlatMap(it[2], it[3], None))
            ELSE IF it[3] = None THEN <<None, it>>
            ELSE LET y == ItNext(it[3])
                 IN  IF y[1] = None THEN <<None, ItFlatMap(it[2], None, None)>>
                     ELSE ItNext(ItFlatMap(it[2], y[2], ItFlat(it[2], y[1])))
      [] it[1] = "Product" ->
            IF it[5] # <<>>
            THEN IF it[4] = None THEN <<None, ItProduct(it[2], it[3], it[4], Tail(it[5]), it[6])>>
                 ELSE <<PairFn(it[2], it[4], Head(it[5])),
                        ItProduct(it[2], it[3], it[4], Tail(it[5]), it[6])>>
            ELSE IF it[6] = <<>> THEN <<None, it>>
            ELSE LET a == ItNext(it[3])
                 IN  IF a[1] = None
                     THEN <<None, ItProduct(it[2], a[2], None, Tail(it[6]), it[6])>>
                     ELSE <<PairFn(it[2], a[1], Head(it[6])),
                            ItProduct(it[2], a[2], a[1], Tail(it[6]), it[6])>>
      [] it[1] = "Rec" ->
            LET step(s) == <<s[1], ItRec(it[2], it[3], s[2])>>
            IN  IF it[4] = <<>> THEN <<None, it>>
                ELSE step(RecurseNext(it[2], it[3], it[4]))

\* Iterator::size_hint, the upper bound (Unbounded: None). Every iterator
\* here that reports the upper bound 0 reports the lower bound 0 with it.
HintAdd(a, b) == IF a = Unbounded \/ b = Unbounded THEN Unbounded ELSE a + b

HintMul(a, n) == IF a = Unbounded THEN Unbounded ELSE a * n

HintMin(a, n) == IF a = Unbounded \/ n <= a THEN n ELSE a

ItHint(it) ==
    CASE it[1] = "Vec" -> Len(it[2])
      [] it[1] \in {"Filter", "Map"} -> ItHint(it[3])
      [] it[1] = "Chain" ->
            IF it[2] = None THEN ItHint(it[3]) ELSE HintAdd(ItHint(it[2]), ItHint(it[3]))
      [] it[1] = "TakeN" -> IF it[2] = 0 THEN 0 ELSE HintMin(ItHint(it[3]), it[2])
      [] it[1] = "FlatMap" ->
            IF it[3] = None \/ ItHint(it[3]) = 0
            THEN IF it[4] = None THEN 0 ELSE ItHint(it[4])
            ELSE Unbounded
      [] it[1] = "Product" ->
            HintAdd(HintMul(ItHint(it[3]), Len(it[6])),
                    IF it[4] = None THEN 0 ELSE Len(it[5]))
      [] it[1] = "Rec" -> RecurseSizeHint(it[4])

\* `l as $x | r` as an iterator (lines 158-180)
BuildPipeBind(l, r, ctx, val) ==
    LET general(src) == ItFlatMap(<<"Bind", r, ctx, val>>, src, None)
        single(y, rest) ==
            IF rest[1] # None
            THEN ItVec(<<Panic("assertion failed: l.next().is_none()")>>)
            ELSE IF IsOk(y) THEN Build(r, CtxCons(y[2], ctx), val)
            ELSE ItVec(<<y>>)
        fast(y) ==
            IF y[1] # None THEN single(y[1], ItNext(y[2])) ELSE general(y[2])
        bind(l0) ==
            IF ItHint(l0) = 1 THEN fast(ItNext(l0)) ELSE general(l0)
    IN  bind(Build(l, ctx, val))

\* `l // r` as an iterator
BuildAlt(l, r, ctx, val) ==
    LET alt(h) ==
            IF h[1] # None THEN ItChain(ItVec(<<h[1]>>), h[2]) ELSE Build(r, ctx, val)
    IN  alt(ItNext(ItFilter(<<"AltKeep">>, Build(l, ctx, val))))

\* Filter::run up to the point where it returns: the iterator it returns.
\* What run collects before it returns is a Vec of the collected items.
Build(f, ctx, val) ==
    CASE f[1] \in {"Id", "Int", "Str", "Array", "Empty", "Error", "Var", "Arg",
                   "Path", "Last", "Reduce", "Assign", "Update"} -> ItVec(Run(f, ctx, val))
      [] f[1] = "Try" -> ItFilter(<<"IsOk">>, Build(f[2], ctx, val))
      [] f[1] = "Neg" -> ItMap(<<"Neg">>, Build(f[2], ctx, val))
      [] f[1] = "Pipe" ->
            IF f[3] THEN BuildPipeBind(f[2], f[4], ctx, val)
            ELSE ItFlatMap(<<"Pipe", f[4], ctx>>, Build(f[2], ctx, val), None)
      [] f[1] = "Comma" -> ItChain(Build(f[2], ctx, val), Build(f[3], ctx, val))
      [] f[1] = "Alt" -> BuildAlt(f[2], f[3], ctx, val)
      [] f[1] = "IfThenElse" ->
            IF f[2] = <<>> THEN Build(f[3], ctx, val)
            ELSE ItFlatMap(<<"IfThen", Tail(f[2]), Head(f[2])[2], f[3], ctx, val>>,
                           Build(Head(f[2])[1], ctx, val), None)
      [] f[1] = "Logic" ->
            ItFlatMap(<<"Logic", f[3], f[4], ctx, val>>, Build(f[2], ctx, val), None)
      [] f[1] \in {"Math", "Ord"} -> CartesianIt(<<f[1], f[3]>>, f[2], f[4], ctx, val)
      [] f[1] = "First" -> ItTake(1, Build(f[2], ctx, val))
      [] f[1] = "Limit" ->
            ItFlatMap(<<"Limit", f[3], ctx, val>>,
                      ItMap(<<"AsInt">>, Build(f[2], ctx, val)), None)
      [] f[1] = "Range" ->
            ItFlatMap(<<"Range">>, CartesianIt(<<"Range">>, f[2], f[3], ctx, val), None)
      [] f[1] = "Recurse" -> ItRec(f[2], ctx, <<Ok(val)>>)
      [] f[1] = "SkipCtx" -> Build(f[3], CtxSkip(ctx, f[2]), val)

\* the items an iterator returns until it returns None
RECURSIVE Drain(_)
Drain(it) ==
    LET y == ItNext(it)
    IN  IF y[1] = None THEN <<>> ELSE <<y[1]>> \o Drain(y[2])

\* l.size_hint().1 of the iterator that run returns, before anything is taken
SizeHintUpper(f, ctx, val) ==
    ItHint(Build(f, ctx, val))

-----------------------------------------------------------------------------
(* The native filter limit of jaq-std: macro limit! *)

\* ValTx::try_as_isize
try_as_isize(v) ==
    IF v[1] = "Int" THEN Ok(v[2]) ELSE Err(<<"Type", v, "integer">>)

\* pos: n.try_into().unwrap_or(0usize)
Pos(n) == IF n < 0 THEN 0 ELSE n

\* limit!: n is the value of the variable argument, f the filter argument,
\* fc the context f was bound in
NativeLimit(n, f, fc, val) ==
    LET ni == try_as_isize(n)
    IN  IF IsErr(ni) THEN <<ni>>
        ELSE IF Pos(ni[2]) = 0 THEN <<>>
        ELSE Take(Run(f, fc, val), Pos(ni[2]))

\* try_fold(None, |_, x| x.map(Some)) on the stream s from the accumulator
\* acc: the first Err, or Ok of the last element (None on an empty stream)
RECURSIVE TryFoldLast(_, _)
TryFoldLast(acc, s) ==
    IF s = <<>> THEN Ok(acc)
    ELSE IF IsOk(Head(s)) THEN TryFoldLast(<<"Some", Head(s)[2]>>, Tail(s))
    ELSE Head(s)

\* once_or_empty: r.transpose().into_iter()
once_or_empty(r) ==
    IF IsOk(r) THEN (IF r[2] = None THEN <<>> ELSE <<Ok(r[2][2])>>) ELSE <<r>>

\* last!: f the filter argument, fc the context f was bound in
NativeLast(f, fc, val) ==
    once_or_empty(TryFoldLast(None, Run(f, fc, val)))

\* the try_fold of Last on the iterator it: <<what it returns, the iterator
\* it leaves behind>>; it stops asking at the first Err
RECURSIVE LastTryFold(_, _)
LastTryFold(it, acc) ==
    LET fold(y) ==
            IF y[1] = None THEN <<Ok(acc), y[2]>>
            ELSE IF IsOk(y[1]) THEN LastTryFold(y[2], <<"Some", y[1][2]>>)
            ELSE <<y[1], y[2]>>
    IN  fold(ItNext(it))

-----------------------------------------------------------------------------
(* Running a filter: the inputs are drawn from the sets below *)

MaxLimit == 3

Vals ==
    { ValNull, ValInt(1), ValBool(FALSE),
      ValArr(<<ValInt(1), ValNull>>),
      ValArr(<<ValArr(<<ValInt(2)>>), ValInt(0)>>) }

Ctxs ==
    { <<ValInt(1)>>, <<ValArr(<<ValBool(FALSE), ValInt(3)>>), ValNull>> }

Atoms ==
    { Id, Empty, Error, Var(0), IterStrict,
      Comma(Error, Id),
      Math(Id, "Add", FilterInt(1)),
      Pipe(FilterInt(0), TRUE, Comma(Var(0), Var(1))) }

Counts ==
    {FilterInt(n) : n \in (0 - 1)..MaxLimit} \cup {Id}

Sources ==
    Atoms \cup {Comma(a, IterStrict) : a \in Atoms}

Programs ==
    {Pipe(a, FALSE, Pipe(b, FALSE, c)) : a \in Atoms, b \in Atoms, c \in Atoms}
    \cup {Pipe(Comma(a, b), FALSE, c) : a \in Atoms, b \in Atoms, c \in Atoms}
    \cup {Try(f) : f \in Sources}
    \cup {Math(l, "Add", r) : l \in Atoms, r \in Atoms}
    \cup {Ord(l, "Lt", r) : l \in Atoms, r \in Atoms}
    \cup {Limit(n, f) : n \in Counts, f \in Sources}
    \cup {Alt(l, r) : l \in Sources, r \in Atoms}

RunIdle ==
    /\ prog = Id
    /\ cv = <<<<>>, ValNull>>
    /\ out = NotRun
    /\ nout = NotRun

InitRun ==
    /\ prog \in Programs
    /\ cv \in Ctxs \X Vals
    /\ out = NotRun
    /\ nout = NotRun

\* Filter::run is called on (prog, cv)
RunFilter ==
    /\ out = NotRun
    /\ out' = Run(prog, cv[1], cv[2])
    /\ UNCHANGED <<prog, cv, nout>>

\* the native limit is called with $n bound to the one value of the count
\* expression and f to the limited filter
RunNativeLimit ==
    /\ nout = NotRun
    /\ prog[1] = "Limit"
    /\ \E n \in Vals \cup {ValInt(i) : i \in (0 - 1)..MaxLimit} :
          /\ Run(prog[2], cv[1], cv[2]) = <<Ok(n)>>
          /\ nout' = NativeLimit(n, prog[3], cv[1], cv[2])
    /\ UNCHANGED <<prog, cv, out>>

-----------------------------------------------------------------------------
(* Logic: the operands of `and` and `or` *)

LogicLefts ==
    { Id, Empty, Error, IterStrict, Var(0), FilterInt(0),
      Comma(Error, Id), Comma(Id, IterStrict), Comma(IterStrict, Error) }

\* Arg(0) panics when it is run
LogicRights ==
    { Id, Empty, Error, IterStrict, Var(0), Arg(0),
      Comma(Error, Id), Comma(IterStrict, Error) }

LogicPrograms ==
    {Logic(l, stop, r) : l \in LogicLefts, stop \in BOOLEAN, r \in LogicRights}

InitLogic ==
    /\ prog \in LogicPrograms
    /\ cv \in Ctxs \X Vals
    /\ out = NotRun
    /\ nout = NotRun

-----------------------------------------------------------------------------
(* Last and Reduce: the filters that fold a stream *)

FoldSources ==
    Sources \cup { Comma(IterStrict, Error), Comma(Id, Comma(Error, Id)),
                   Pipe(IterStrict, FALSE, IterStrict), Recurse(IterOpt) }

ReduceInits ==
    { FilterInt(0), Empty, Error, Id, Comma(FilterInt(0), FilterInt(1)),
      Comma(FilterInt(0), Error) }

ReduceSources ==
    { IterStrict, Empty, Comma(Id, Error), Comma(Error, Id),
      Comma(FilterInt(1), FilterInt(2)) }

ReduceUpdates ==
    { Math(Id, "Add", Var(0)), Comma(Id, Var(0)), Var(0), Var(1), Empty, Error,
      Comma(Var(0), Error) }

FoldPrograms ==
    {Last(f) : f \in FoldSources}
    \cup {Reduce(xs, init, f) : xs \in ReduceSources, init \in ReduceInits,
                                f \in ReduceUpdates}

InitFold ==
    /\ prog \in FoldPrograms
    /\ cv \in Ctxs \X Vals
    /\ out = NotRun
    /\ nout = NotRun

\* the native last is called with f bound to the filter of Last
RunNativeLast ==
    /\ nout = NotRun
    /\ prog[1] = "Last"
    /\ nout' = NativeLast(prog[2], cv[1], cv[2])
    /\ UNCHANGED <<prog, cv, out>>

-----------------------------------------------------------------------------
(* Pipes with binding: `l as $x | r` over left sides of every kind of iterator *)

BindSources ==
    { Id, Empty, Error, Var(0), FilterInt(1), IterStrict, IterOpt,
      Array(Comma(Id, Id)),
      Try(Id), Try(Error), Try(Comma(Error, Id)), Try(Comma(Id, Error)),
      Neg(Id), Neg(Comma(Id, Id)),
      Comma(Id, Empty), Comma(Empty, Id), Comma(Id, Id), Comma(Try(Error), Id),
      First(Id), First(Empty), First(Comma(Id, Error)), First(IterStrict),
      First(Try(Comma(Error, Comma(Id, Id)))),
      Last(IterStrict), Last(Empty),
      Alt(Id, Id), Alt(Comma(Id, FilterInt(1)), Id), Alt(Empty, Comma(Id, Id)),
      Alt(Comma(FilterInt(1), Ord(Id, "Ne", Id)), Id),
      Alt(Comma(Ord(Id, "Ne", Id), FilterInt(1)), Id),
      Alt(Comma(Error, FilterInt(1)), Id),
      Math(Id, "Add", FilterInt(1)), Math(Id, "Add", Empty),
      Math(Id, "Add", Comma(FilterInt(1), FilterInt(2))),
      Math(Comma(Id, Id), "Add", FilterInt(1)),
      Math(Try(Comma(Error, Id)), "Add", Comma(FilterInt(1), FilterInt(2))),
      Math(Try(Error), "Add", Comma(FilterInt(1), FilterInt(2))),
      Ord(First(IterStrict), "Lt", Comma(FilterInt(1), FilterInt(2))),
      Pipe(Id, FALSE, Id), Pipe(Empty, FALSE, Id), Pipe(IterStrict, FALSE, Comma(Id, Id)),
      Pipe(FilterInt(1), TRUE, Var(0)), Pipe(FilterInt(1), TRUE, Comma(Var(0), Id)),
      Pipe(Comma(Id, Id), TRUE, Var(0)), Pipe(Try(Error), TRUE, Var(0)),
      Limit(FilterInt(1), Comma(Id, Id)), Limit(Empty, Id),
      Logic(Id, TRUE, Id), Range(FilterInt(0), FilterInt(1)),
      IfThenElse(<<<<Id, Id>>>>, Empty), IfThenElse(<<>>, Id),
      Reduce(IterStrict, FilterInt(0), Math(Id, "Add", Var(0))),
      Recurse(Empty), Recurse(IterOpt), SkipCtx(1, Id) }

BindBodies ==
    { Var(0), Comma(Var(0), Id), Empty, Error }

BindVals ==
    { ValNull, ValInt(1), ValBool(FALSE), ValArr(<<>>), ValArr(<<ValInt(2)>>),
      ValArr(<<ValInt(1), ValArr(<<ValInt(2)>>)>>) }

InitBind ==
    /\ prog \in {Pipe(l, TRUE, r) : l \in BindSources, r \in BindBodies}
    /\ cv \in Ctxs \X BindVals
    /\ out = NotRun
    /\ nout = NotRun

-----------------------------------------------------------------------------
(* Assignments and updates: Filter::run on Assign(path, f) and Update(path, f) *)

KeyX == <<120>>
KeyY == <<121>>

\* `.x`, `.x?`, `.y`
DotX == Path(Id, <<IndexPart(FilterStr(KeyX), "Essential")>>)
DotXOpt == Path(Id, <<IndexPart(FilterStr(KeyX), "Optional")>>)
DotY == Path(Id, <<IndexPart(FilterStr(KeyY), "Essential")>>)

UpdVals ==
    { ValNull, ValInt(1),
      ValArr(<<ValInt(1), ValArr(<<ValInt(2)>>)>>),
      ValObj(<<>>),
      ValObj(<<<<KeyX, ValInt(0)>>>>),
      ValObj(<<<<KeyY, ValInt(1)>>>>),
      ValObj(<<<<KeyX, ValArr(<<ValInt(1), ValInt(3)>>)>>, <<KeyY, ValInt(2)>>>>) }

UpdCtxs ==
    { <<ValInt(1)>>, <<ValStr(KeyY), ValInt(0)>> }

\* the filters given to update as paths; the last one is no path
UpdPaths ==
    { Id, Empty, DotX, DotXOpt, DotY, IterStrict, IterOpt,
      Path(Id, <<IndexPart(FilterStr(KeyX), "Essential"), IterPart("Optional")>>),
      Path(DotX, <<IndexPart(Comma(FilterInt(0), FilterInt(0 - 1)), "Optional")>>),
      Path(Id, <<IndexPart(Error, "Essential")>>),
      Pipe(DotX, FALSE, IterOpt),
      Pipe(Comma(FilterStr(KeyX), FilterStr(KeyY)), TRUE,
           Path(Id, <<IndexPart(Var(0), "Essential")>>)),
      Pipe(FilterStr(KeyX), TRUE, Path(Id, <<IndexPart(Var(0), "Essential")>>)),
      Comma(DotX, DotY),
      Comma(IterOpt, Id),
      IfThenElse(<<<<DotXOpt, DotX>>>>, Empty),
      IfThenElse(<<<<Ord(Var(0), "Eq", FilterInt(1)), DotX>>>>, IterOpt),
      IfThenElse(<<<<Comma(FilterInt(1), Ord(Id, "Ne", Id)), DotX>>>>, DotY),
      Recurse(IterOpt),
      Recurse(DotXOpt),
      Recurse(Empty),
      FilterInt(1) }

\* the right sides of `path = f`: what they yield does not grow with the input
AssignReplaces ==
    { FilterInt(1), Empty, Error, Var(0), Comma(FilterInt(1), FilterInt(2)) }

\* the right sides of `path |= f`
UpdateReplaces ==
    { Id, FilterInt(1), Math(Id, "Add", FilterInt(1)), Empty, Error,
      Comma(Id, FilterInt(2)), First(IterOpt) }

\* `.x = 1` and its like: one key, a right side that does not read the input
KeyAssigns ==
    {Assign(q, f) : q \in {DotX, DotY}, f \in {FilterInt(1), Var(0)}}

UpdPrograms ==
    {Assign(q, f) : q \in UpdPaths, f \in AssignReplaces}
    \cup {Update(q, f) : q \in UpdPaths, f \in UpdateReplaces}
    \cup {Pipe(a, FALSE, a) : a \in KeyAssigns}

InitUpdate ==
    /\ prog \in UpdPrograms
    /\ cv \in UpdCtxs \X UpdVals
    /\ out = NotRun
    /\ nout = NotRun

-----------------------------------------------------------------------------
(* Object: the pairs of an object construction *)

KeyZ == <<122>>

ObjectKeys ==
    { FilterStr(KeyX), Comma(FilterStr(KeyX), FilterStr(KeyY)), Id, Empty,
      IterStrict, Comma(Error, FilterStr(KeyY)) }

ObjectValues ==
    { Id, Empty, IterStrict, Comma(FilterInt(0), Error) }

ObjectPairs ==
    {<<kf, vf>> : kf \in ObjectKeys, vf \in ObjectValues}

ObjectTriples ==
    { <<<<FilterStr(KeyZ), IterStrict>>, <<IterStrict, Id>>,
        <<Comma(FilterStr(KeyY), FilterStr(KeyX)), Comma(FilterInt(0), Error)>>>>,
      <<<<IterStrict, FilterInt(0)>>, <<FilterStr(KeyY), Empty>>, <<Id, Id>>>>,
      <<<<IterStrict, IterStrict>>, <<FilterStr(KeyY), FilterInt(1)>>,
        <<Comma(FilterStr(KeyX), FilterStr(KeyY)), IterStrict>>>> }

ObjectPrograms ==
    {Object(<<>>)}
    \cup {Object(<<p>>) : p \in ObjectPairs}
    \cup {Object(<<p, q>>) : p \in ObjectPairs, q \in ObjectPairs}
    \cup {Object(o) : o \in ObjectTriples}

ObjectVals ==
    { ValNull, ValStr(KeyX),
      ValArr(<<ValStr(KeyX), ValStr(KeyY)>>),
      ValArr(<<ValStr(KeyY), ValInt(1), ValStr(KeyY)>>) }

InitObject ==
    /\ prog \in ObjectPrograms
    /\ cv \in Ctxs \X ObjectVals
    /\ out = NotRun
    /\ nout = NotRun

-----------------------------------------------------------------------------
(* sort_by and group_by of jaq-std: the array val sorted, or grouped, by the *)
(* keys that the filter f yields on its elements                              *)

\* Vec<V>: Ord, the lexicographic order of key lists
KeyLess(a, b) == ValLess(ValArr(a), ValArr(b))

\* the closure given to sort_by_cached_key, called on the elements of xs in
\* order: <<the keys, err>>, err the first error or None; after an error
\* every key is the empty list and f is not run
RECURSIVE CachedKeys(_, _, _)
CachedKeys(xs, f, fc) ==
    IF xs = <<>> THEN <<<<>>, None>>
    ELSE LET key(before, x) ==
                 IF before[2] # None THEN <<Append(before[1], <<>>), before[2]>>
                 ELSE LET y == Collect(Run(f, fc, x))
                      IN  IF IsOk(y) THEN <<Append(before[1], y[2]), None>>
                          ELSE <<Append(before[1], <<>>), y>>
         IN  key(CachedKeys(SubSeq(xs, 1, Len(xs) - 1), f, fc), xs[Len(xs)])

\* the elements of xs in the order of their (key, index) pairs
SortedByKeys(xs, keys) ==
    LET before(j, i) == KeyLess(keys[j], keys[i]) \/ (keys[j] = keys[i] /\ j < i)
        rank(i) == Cardinality({j \in 1..Len(xs) : before(j, i)}) + 1
    IN  [n \in 1..Len(xs) |-> xs[CHOOSE i \in 1..Len(xs) : rank(i) = n]]

\* slice::sort_by_cached_key: a slice of fewer than two elements is returned
\* as it is, without a call of the key closure: <<the slice, err>>
sort_by_cached_key(xs, f, fc) ==
    IF Len(xs) < 2 THEN <<xs, None>>
    ELSE LET sorted(ke) == <<SortedByKeys(xs, ke[1]), ke[2]>>
         IN  sorted(CachedKeys(xs, f, fc))

\* sort_by, with the array put back by try_mutate_arr
sort_by(xs, f, fc) ==
    LET result(s) == IF s[2] = None THEN Ok(ValArr(s[1])) ELSE s[2]
    IN  result(sort_by_cached_key(xs, f, fc))

\* Val::into_vec and Val::try_mutate_arr: the elements of an array
into_vec(v) ==
    IF v[1] = "Arr" THEN Ok(v[2]) ELSE Err(<<"Type", v, "Arr">>)

\* the native sort_by on (fc, v)
SortByRun(f, fc, v) ==
    IF IsErr(into_vec(v)) THEN <<into_vec(v)>> ELSE <<sort_by(v[2], f, fc)>>

\* the groups of the elements xs, sorted by their keys ys: each group is a
\* longest run of elements with equal keys
RECURSIVE GroupRuns(_, _)
GroupRuns(ys, xs) ==
    IF xs = <<>> THEN <<>>
    ELSE LET rest == GroupRuns(Tail(ys), Tail(xs))
         IN  IF Len(ys) > 1 /\ ys[1] = ys[2]
             THEN <<<<xs[1]>> \o rest[1]>> \o Tail(rest)
             ELSE <<<<xs[1]>>>> \o rest

\* faulty variant of group_by: the pairs are grouped as they come, unsorted
group_by_unsorted(xs, f, fc) ==
    LET grouped(yx) ==
            IF IsErr(yx) THEN yx
            ELSE LET gs == GroupRuns(yx[2], xs)
                 IN  Ok(ValArr([g \in 1..Len(gs) |-> ValArr(gs[g])]))
    IN  grouped(Collect([i \in 1..Len(xs) |-> Collect(Run(f, fc, xs[i]))]))

\* group_by: the (key, element) pairs are collected up to the first error,
\* sorted stably by key, and split where the key changes
group_by(xs, f, fc) ==
    LET grouped(yx) ==
            IF IsErr(yx) THEN yx
            ELSE LET gs == GroupRuns(SortedByKeys(yx[2], yx[2]), SortedByKeys(xs, yx[2]))
                 IN  Ok(ValArr([g \in 1..Len(gs) |-> ValArr(gs[g])]))
    IN  grouped(Collect([i \in 1..Len(xs) |-> Collect(Run(f, fc, xs[i]))]))

\* the native group_by on (fc, v)
GroupByRun(f, fc, v) ==
    IF IsErr(into_vec(v)) THEN <<into_vec(v)>> ELSE <<group_by(v[2], f, fc)>>

MaxSortLen == 3

SortElems ==
    { ValNull, ValInt(2), ValInt(1),
      ValArr(<<ValInt(1), ValInt(0)>>), ValArr(<<ValInt(1), ValInt(1)>>),
      ValArr(<<ValInt(0), ValInt(2)>>) }

\* the filters that give the keys: `.`, `0`, `empty`, `error`, `.[]`, `.[0]`,
\* `-.` and `.[0], 0`
SortKeys ==
    { Id, FilterInt(0), Empty, Error, IterStrict,
      Path(Id, <<IndexPart(FilterInt(0), "Essential")>>),
      Neg(Id),
      Comma(Path(Id, <<IndexPart(FilterInt(0), "Essential")>>), FilterInt(0)) }

SortInputs ==
    {ValArr(a) : a \in UNION {[1..n -> SortElems] : n \in 0..MaxSortLen}}
    \cup {ValNull, ValInt(1)}

InitSort ==
    /\ prog \in SortKeys
    /\ cv \in {<<ValInt(0)>>} \X SortInputs
    /\ out = NotRun
    /\ nout = NotRun

\* sort_by(prog) is called on cv
RunSortBy ==
    /\ out = NotRun
    /\ out' = SortByRun(prog, cv[1], cv[2])
    /\ UNCHANGED <<prog, cv, nout>>

\* group_by(prog) is called on cv
RunGroupBy ==
    /\ nout = NotRun
    /\ nout' = GroupByRun(prog, cv[1], cv[2])
    /\ UNCHANGED <<prog, cv, out>>

-----------------------------------------------------------------------------
(* Filter::subst: every Arg(i) replaced by args[i] *)

RECURSIVE Subst(_, _)

\* Option<Box<Self>>::map(sub)
SubstOpt(f, args) ==
    IF f = None THEN None ELSE Subst(f, args)

\* faulty variant of SubstPairs: only the first filter of each pair is substituted
SubstPairsFirstOnly(kvs, args) ==
    [i \in 1..Len(kvs) |-> <<Subst(kvs[i][1], args), kvs[i][2]>>]

\* the pairs of an Object or of an IfThenElse, both filters substituted
SubstPairs(kvs, args) ==
    [i \in 1..Len(kvs) |-> <<Subst(kvs[i][1], args), Subst(kvs[i][2], args)>>]

\* Path::map(subst): the filters inside each part substituted, its Opt kept
PathMap(path, args) ==
    [i \in 1..Len(path) |->
        LET p == path[i][1]
        IN  <<IF p[1] = "Index" THEN <<"Index", Subst(p[2], args)>>
              ELSE <<"Range", SubstOpt(p[2], args), SubstOpt(p[3], args)>>,
              path[i][2]>>]

\* args[a].clone(): an index past the slice panics
SubstArg(a, args) ==
    IF a < Len(args) THEN args[a + 1] ELSE Panic("index out of bounds")

Subst(f, args) ==
    CASE f[1] \in LeafTags -> f
      [] f[1] = "Array" -> Array(SubstOpt(f[2], args))
      [] f[1] = "Object" -> Object(SubstPairs(f[2], args))
      [] f[1] \in UnaryTags -> <<f[1], Subst(f[2], args)>>
      [] f[1] \in InfixTags -> <<f[1], Subst(f[2], args), f[3], Subst(f[4], args)>>
      [] f[1] \in BinaryTags -> <<f[1], Subst(f[2], args), Subst(f[3], args)>>
      [] f[1] = "IfThenElse" -> IfThenElse(SubstPairs(f[2], args), Subst(f[3], args))
      [] f[1] = "Reduce" ->
            Reduce(Subst(f[2], args), Subst(f[3], args), Subst(f[4], args))
      [] f[1] = "Path" -> Path(Subst(f[2], args), PathMap(f[3], args))
      [] f[1] = "SkipCtx" -> SkipCtx(f[2], Subst(f[3], args))
      [] f[1] = "Arg" -> SubstArg(f[2], args)

\* the filters subst is called on: every variant over the leaves, and some
\* deeper trees
SubstLeaves ==
    { Id, Arg(0), Arg(1), Var(1), FilterInt(7) }

SubstPaths ==
    {<<IndexPart(a, "Essential")>> : a \in SubstLeaves}
    \cup {<<RangePart(a, None, "Optional"), IndexPart(Arg(0), "Optional")>> : a \in SubstLeaves}
    \cup {<<RangePart(None, a, "Essential")>> : a \in SubstLeaves}
    \cup {<<IterPart("Optional")>>}

SubstTrees1 ==
    SubstLeaves
    \cup { FilterFloat(1), FilterStr(<<97>>), Empty, Error, Length, Floor, Round, Ceil,
           FromJson, ToJson, Keys, Explode, Implode, AsciiDowncase, AsciiUpcase,
           Reverse, Sort, Array(None), Object(<<>>) }
    \cup {Array(a) : a \in SubstLeaves}
    \cup {<<t, a>> : t \in UnaryTags, a \in SubstLeaves}
    \cup {<<t, a, b>> : t \in BinaryTags, a \in SubstLeaves, b \in SubstLeaves}
    \cup {Pipe(a, bind, b) : a \in SubstLeaves, bind \in BOOLEAN, b \in SubstLeaves}
    \cup {Logic(a, stop, b) : a \in SubstLeaves, stop \in BOOLEAN, b \in SubstLeaves}
    \cup {Math(a, op, b) : a \in SubstLeaves, op \in {"Add", "Sub"}, b \in SubstLeaves}
    \cup {Ord(a, op, b) : a \in SubstLeaves, op \in {"Lt", "Eq"}, b \in SubstLeaves}
    \cup {Object(<<<<a, b>>>>) : a \in SubstLeaves, b \in SubstLeaves}
    \cup {Object(<<<<FilterStr(<<97>>), a>>, <<Arg(1), b>>>>) : a \in SubstLeaves, b \in SubstLeaves}
    \cup {IfThenElse(<<<<a, b>>>>, c) : a \in SubstLeaves, b \in SubstLeaves, c \in SubstLeaves}
    \cup {IfThenElse(<<<<Id, a>>, <<b, Arg(0)>>>>, Empty) : a \in SubstLeaves, b \in SubstLeaves}
    \cup {Reduce(a, b, c) : a \in SubstLeaves, b \in SubstLeaves, c \in SubstLeaves}
    \cup {Path(a, p) : a \in SubstLeaves, p \in SubstPaths}
    \cup {SkipCtx(n, a) : n \in {1, 2}, a \in SubstLeaves}

SubstTrees ==
    SubstTrees1
    \cup {Pipe(Try(a), TRUE, SkipCtx(1, Comma(b, Limit(Arg(1), Recurse(Arg(0)))))) :
            a \in SubstLeaves, b \in SubstLeaves}
    \cup {Alt(Array(Path(a, <<IndexPart(Neg(b), "Optional")>>)), Reduce(Arg(0), Id, Update(Id, b))) :
            a \in SubstLeaves, b \in SubstLeaves}

\* the filters given as arguments; the last holds an Arg itself
SubstArgFilters ==
    { Id, Var(0), Comma(FilterInt(2), Recurse(IterOpt)), Pipe(Arg(0), FALSE, Id) }

SubstArgLists ==
    {<<a>> : a \in SubstArgFilters}
    \cup {<<a, b>> : a \in SubstArgFilters, b \in SubstArgFilters}

InitSubst ==
    /\ stree \in SubstTrees
    /\ sargs \in SubstArgLists
    /\ sres = None

\* Filter::subst is called on (stree, sargs)
SubstCall ==
    /\ sres = None
    /\ sres' = Subst(stree, sargs)
    /\ UNCHANGED <<stree, sargs>>

-----------------------------------------------------------------------------
(* The Recurse iterator: struct Recurse, driven one next() at a time *)

\* `. < 2` decides whether a number has successors
Successors ==
    IfThenElse(<<<<Ord(Id, "Lt", FilterInt(2)),
                   Comma(Math(Id, "Add", FilterInt(1)), Math(Id, "Add", FilterInt(2)))>>>>,
               Empty)

RecFilters ==
    { IterOpt, IterStrict, Empty, Error,
      Comma(IterOpt, Error),
      Comma(Error, IterOpt),
      Pipe(IterOpt, TRUE, Comma(Var(0), Var(1))),
      Successors }

RecVals ==
    { ValInt(0), ValNull, ValArr(<<>>),
      ValArr(<<ValInt(1), ValArr(<<ValInt(2), ValNull>>), ValInt(3)>>),
      ValArr(<<ValArr(<<ValArr(<<ValInt(0)>>), ValBool(FALSE)>>), ValArr(<<>>)>>) }

RecCtxs ==
    { <<ValInt(9)>> }

\* Recurse::new(filter, (ctx, val))
InitRecurse ==
    /\ rfilter \in RecFilters
    /\ rctx \in RecCtxs
    /\ rroot \in RecVals
    /\ rvals = <<Ok(rroot)>>
    /\ remitted = <<>>
    /\ rdone = FALSE
    /\ rcollected = None

\* what Recurse::next on a non-empty worklist collects before it returns the
\* popped item: self.filter.run(..).collect() for an Ok item, the whole stream
\* of f on it; nothing for an Err
RecurseCollects(f, ctx, vals) ==
    LET v == vals[Len(vals)]
    IN  IF IsOk(v) THEN <<"Some", Run(f, ctx, v[2])>> ELSE None

\* one call of Recurse::next: None on an empty worklist, else the popped item
RecurseNextCall ==
    /\ ~rdone
    /\ IF rvals = <<>>
       THEN /\ rdone' = TRUE
            /\ rcollected' = None
            /\ UNCHANGED <<rvals, remitted>>
       ELSE /\ rvals' = RecurseNext(rfilter, rctx, rvals)[2]
            /\ remitted' = Append(remitted, RecurseNext(rfilter, rctx, rvals)[1])
            /\ rcollected' = RecurseCollects(rfilter, rctx, rvals)
            /\ UNCHANGED rdone
    /\ UNCHANGED <<rfilter, rctx, rroot>>

-----------------------------------------------------------------------------
(* The consumer of the stream of a Comma: Filter::run is called, then next() *)
(* is called on the iterator it returned until that returns None.            *)

\* Filter::run takes an element from the stream of a sub-filter (next,
\* collect or try_fold) before it returns its iterator. Not defined on Assign
\* and Update.
RECURSIVE PullsAtCall(_, _, _)
PullsAtCall(f, ctx, val) ==
    CASE f[1] \in {"Id", "Int", "Str", "Empty", "Error", "Var", "Arg", "Recurse"} -> FALSE
      [] f[1] = "Array" -> f[2] # None
      [] f[1] \in {"Alt", "Path", "Last", "Reduce", "Math", "Ord", "Range"} -> TRUE
      [] f[1] \in {"Try", "Neg", "First", "Logic", "Limit"} -> PullsAtCall(f[2], ctx, val)
      [] f[1] = "Pipe" ->
            PullsAtCall(f[2], ctx, val) \/ (f[3] /\ SizeHintUpper(f[2], ctx, val) = 1)
      [] f[1] = "Comma" -> PullsAtCall(f[2], ctx, val) \/ PullsAtCall(f[3], ctx, val)
      [] f[1] = "IfThenElse" ->
            IF f[2] = <<>> THEN PullsAtCall(f[3], ctx, val)
            ELSE PullsAtCall(Head(f[2])[1], ctx, val)
      [] f[1] = "SkipCtx" -> PullsAtCall(f[3], CtxSkip(ctx, f[2]), val)

\* the two sides of the Comma the consumer runs
CommaSides ==
    { Empty, Error, FilterInt(1), Id,
      Comma(FilterInt(1), FilterInt(2)),
      Comma(FilterInt(1), Error),
      Try(Comma(Error, Id)),
      First(Comma(Id, Error)),
      Pipe(Comma(FilterInt(1), FilterInt(2)), FALSE, Comma(Id, Error)),
      Array(None),
      Array(Comma(FilterInt(1), FilterInt(2))),
      Alt(Empty, Id),
      Math(Id, "Add", FilterInt(1)),
      Recurse(Empty) }

CommaVals ==
    { ValInt(0), ValNull, ValArr(<<ValInt(1)>>) }

InitPull ==
    /\ prog \in {Comma(l, r) : l \in CommaSides, r \in CommaSides}
    /\ cv \in {<<>>} \X CommaVals
    /\ out = NotRun
    /\ nout = NotRun
    /\ iter = NotRun
    /\ taken = <<>>
    /\ rbegun = FALSE

\* Filter::run is called on the Comma: l.run(cv.clone()).chain(r.run(cv))
\* runs both sides before the chain exists
PullCall ==
    /\ iter = NotRun
    /\ iter' = Build(prog, cv[1], cv[2])
    /\ rbegun' = PullsAtCall(prog[3], cv[1], cv[2])
    /\ UNCHANGED <<prog, cv, out, nout, taken>>

\* the consumer calls next() on the chain: the right side is asked once the
\* left side has returned None; out is the stream taken, once next() has
\* returned None
PullNext ==
    /\ iter # NotRun
    /\ out = NotRun
    /\ \E y \in {ItNext(iter)} :
          /\ IF y[1] = None
             THEN out' = taken /\ UNCHANGED taken
             ELSE taken' = Append(taken, y[1]) /\ UNCHANGED out
          /\ iter' = y[2]
          /\ rbegun' = (rbegun \/ y[2][2] = None)
    /\ UNCHANGED <<prog, cv, nout>>

-----------------------------------------------------------------------------
(* The persistent list of rc_list.rs.  heap[a] is the Node<T> at address a:  *)
(* <<"Nil">> or <<"Cons", x, tail>>, tail the address the inner List holds.  *)
(* An Option is <<"Some", x>> or <<"None">>.                                  *)

Nil == <<"Nil">>
Cons(x, tail) == <<"Cons", x, tail>>
Some(x) == <<"Some", x>>

\* List::head
ListHead(h, a) ==
    IF h[a] = Nil THEN None ELSE Some(h[a][2])

\* the loop of List::skip with k iterations left
RECURSIVE SkipLoop(_, _, _)
SkipLoop(h, cur, k) ==
    IF k = 0 THEN cur
    ELSE IF h[cur][1] = "Cons" THEN SkipLoop(h, h[cur][3], k - 1)
    ELSE cur

\* a skip whose loop runs once too often (for _ in 0..=n)
SkipOneMore(h, a, n) == SkipLoop(h, a, n + 1)

\* List::skip
Skip(h, a, n) == SkipLoop(h, a, n)

\* List::get
Get(h, a, n) == ListHead(h, Skip(h, a, n))

\* Iter::next until it returns None, collected
RECURSIVE IterCollect(_, _)
IterCollect(h, a) ==
    IF h[a] = Nil THEN <<>>
    ELSE <<h[a][2]>> \o IterCollect(h, h[a][3])

MaxListLen == 3
MaxSkip == 4

ListElems == 0..2

\* List::new
InitList ==
    /\ heap = <<Nil>>
    /\ lst = 1
    /\ hist = <<>>
    /\ ret = None

\* l = l.cons(x)
ListCons ==
    /\ Len(hist) < MaxListLen
    /\ \E x \in ListElems :
        /\ heap' = Append(heap, Cons(x, lst))
        /\ hist' = <<x>> \o hist
    /\ lst' = Len(heap) + 1
    /\ ret' = None

\* l.iter().cloned().collect()
ListIter ==
    /\ ret' = <<"Iter", 0, IterCollect(heap, lst)>>
    /\ UNCHANGED <<heap, lst, hist>>

\* l.skip(n), seen through its iter()
ListSkip ==
    /\ \E n \in 0..MaxSkip :
        ret' = <<"Skip", n, IterCollect(heap, Skip(heap, lst, n))>>
    /\ UNCHANGED <<heap, lst, hist>>

\* l.get(n)
ListGet ==
    /\ \E n \in 0..MaxSkip :
        ret' = <<"Get", n, Get(heap, lst, n)>>
    /\ UNCHANGED <<heap, lst, hist>>

-----------------------------------------------------------------------------
(* The handles of the list.  A List<T> is an Rc<Node<T>>: strong[a] counts   *)
(* the List<T> that point to the node at address a, those held by the        *)
(* program (held) and those inside Cons nodes; a node whose count reaches 0  *)
(* is freed, and with it the List<T> it holds.                                *)

Freed == <<"Freed">>

\* no node of the list at address a has been freed
RECURSIVE Intact(_, _)
Intact(h, a) ==
    /\ h[a] # Freed
    /\ h[a][1] = "Cons" => Intact(h, h[a][3])

\* drop of a List<T> that points to a: <<the heap, the counts>> after it
RECURSIVE RcDrop(_, _, _)
RcDrop(h, s, a) ==
    IF s[a] > 1 THEN <<h, [s EXCEPT ![a] = @ - 1]>>
    ELSE IF h[a][1] = "Cons"
    THEN RcDrop([h EXCEPT ![a] = Freed], [s EXCEPT ![a] = 0], h[a][3])
    ELSE <<[h EXCEPT ![a] = Freed], [s EXCEPT ![a] = 0]>>

\* what pop returns for a node: the head and the address of the tail
PopNode(node) ==
    IF node = Nil THEN None ELSE Some(<<node[2], node[3]>>)

\* faulty variant of ListPop: the node of a shared Rc is copied without a
\* clone of the List<T> it holds
ListPopTailNotCloned(h, s, a) ==
    IF s[a] = 1
    THEN <<PopNode(h[a]), [h EXCEPT ![a] = Freed], [s EXCEPT ![a] = 0]>>
    ELSE <<PopNode(h[a]), h, [s EXCEPT ![a] = @ - 1]>>

\* List::pop on a List<T> that points to a: <<what it returns, the heap, the
\* counts>>; try_unwrap moves the node out of an Rc that is not shared and
\* frees the Rc, and otherwise the node is cloned, its tail with it, and the
\* Rc is dropped
ListPop(h, s, a) ==
    IF s[a] = 1
    THEN <<PopNode(h[a]), [h EXCEPT ![a] = Freed], [s EXCEPT ![a] = 0]>>
    ELSE LET cloned == IF h[a][1] = "Cons" THEN [s EXCEPT ![h[a][3]] = @ + 1] ELSE s
         IN  <<PopNode(h[a]), h, [cloned EXCEPT ![a] = @ - 1]>>

\* List::extend on a List<T> that points to a: cons folded over xs:
\* <<the heap, the counts, the address of the result>>
RECURSIVE ListExtend(_, _, _, _)
ListExtend(h, s, a, xs) ==
    IF xs = <<>> THEN <<h, s, a>>
    ELSE ListExtend(Append(h, Cons(Head(xs), a)), Append(s, 1), Len(h) + 1, Tail(xs))

\* a handle as the program holds it: the address and the elements seen
\* through it when it was obtained
Handle(h, a) == <<a, IterCollect(h, a)>>

\* the sequence s without its i-th element
RemoveAt(s, i) ==
    SubSeq(s, 1, i - 1) \o SubSeq(s, i + 1, Len(s))

MaxHandles == 3
MaxNodes == 3

HandleElems == 0..1

InitHandles ==
    /\ heap = <<>>
    /\ strong = <<>>
    /\ held = <<>>
    /\ ret = None

\* List::new()
HandleNew ==
    /\ Len(held) < MaxHandles /\ Len(heap) < MaxNodes
    /\ heap' = Append(heap, Nil)
    /\ strong' = Append(strong, 1)
    /\ held' = Append(held, <<Len(heap) + 1, <<>>>>)
    /\ ret' = None

\* held[i] = held[i].cons(x)
HandleCons ==
    /\ Len(heap) < MaxNodes
    /\ \E i \in 1..Len(held) : \E x \in HandleElems :
          /\ heap' = Append(heap, Cons(x, held[i][1]))
          /\ strong' = Append(strong, 1)
          /\ held' = [held EXCEPT ![i] = Handle(heap', Len(heap) + 1)]
    /\ ret' = None

\* held[i] = held[i].extend(xs)
HandleExtend ==
    /\ \E i \in 1..Len(held) :
       \E xs \in UNION {[1..n -> HandleElems] : n \in 0..(MaxNodes - Len(heap))} :
       \E e \in {ListExtend(heap, strong, held[i][1], xs)} :
          /\ heap' = e[1]
          /\ strong' = e[2]
          /\ held' = [held EXCEPT ![i] = Handle(e[1], e[3])]
    /\ ret' = None

\* held[i].clone() is held as well
HandleClone ==
    /\ Len(held) < MaxHandles
    /\ \E i \in 1..Len(held) :
          /\ strong' = [strong EXCEPT ![held[i][1]] = @ + 1]
          /\ held' = Append(held, Handle(heap, held[i][1]))
    /\ ret' = None
    /\ UNCHANGED heap

\* held[i].skip(n).clone() is held as well, for n up to one more than the
\* length of the list
HandleSkip ==
    /\ Len(held) < MaxHandles
    /\ \E i \in 1..Len(held) : \E n \in 0..(Len(held[i][2]) + 1) :
          /\ strong' = [strong EXCEPT ![Skip(heap, held[i][1], n)] = @ + 1]
          /\ held' = Append(held, Handle(heap, Skip(heap, held[i][1], n)))
    /\ ret' = None
    /\ UNCHANGED heap

\* held[i].pop(): the tail it returns is held in the place of held[i]
HandlePop ==
    \E i \in 1..Len(held) : \E p \in {ListPop(heap, strong, held[i][1])} :
       /\ heap' = p[2]
       /\ strong' = p[3]
       /\ held' = IF p[1] = None THEN RemoveAt(held, i)
                  ELSE [held EXCEPT ![i] = Handle(p[2], p[1][2][2])]
       /\ ret' = <<"Pop", held[i][2], strong[held[i][1]] > 1,
                   IF p[1] = None THEN None
                   ELSE Some(<<p[1][2][1], IterCollect(p[2], p[1][2][2])>>)>>

\* held[i] is dropped
HandleDrop ==
    \E i \in 1..Len(held) : \E d \in {RcDrop(heap, strong, held[i][1])} :
       /\ heap' = d[1]
       /\ strong' = d[2]
       /\ held' = RemoveAt(held, i)
       /\ ret' = None

-----------------------------------------------------------------------------
(* explode and implode of jaq-std.  A string is the sequence of its chars,  *)
(* each char its Unicode scalar value.                                       *)

CharMax == 1114111
SurrogateMin == 55296
SurrogateMax == 57343

\* isize::MAX on a 32-bit target
IsizeMax32 == 2147483647

\* isize::try_from(u) succeeds; on a 64-bit target every u32 fits
FitsIsize(u, bits) == bits = 64 \/ u <= IsizeMax32

\* u32::try_from(i) succeeds; the integers of the model are all below 2^32,
\* so only the sign can make it fail
FitsU32(i) == i >= 0

\* explode: one isize::try_from(c as u32) per char, collected
explode(s, bits) ==
    LET conv(c) == IF FitsIsize(c, bits) THEN Ok(ValInt(c))
                   ELSE Err(<<"Str", "out of range integral type conversion">>)
    IN  [i \in 1..Len(s) |-> conv(s[i])]

\* char::from_u32
CharFromU32(u) ==
    IF u > CharMax \/ (SurrogateMin <= u /\ u <= SurrogateMax)
    THEN None ELSE Some(u)

\* an as_codepoint that lets no char above the surrogates through
AsCodepointBelowSurrogates(v) ==
    LET i == try_as_isize(v)
    IN  IF IsErr(i) THEN i
        ELSE IF i[2] < 0 \/ i[2] >= SurrogateMin
        THEN Err(<<"Str", "cannot use as character", i[2]>>)
        ELSE Ok(i[2])

\* as_codepoint
as_codepoint(v) ==
    LET i == try_as_isize(v)
    IN  IF IsErr(i) THEN i
        ELSE IF ~FitsU32(i[2])
        THEN Err(<<"Str", "out of range integral type conversion">>)
        ELSE IF CharFromU32(i[2]) = None
        THEN Err(<<"Str", "cannot use as character", i[2]>>)
        ELSE Ok(CharFromU32(i[2])[2])

\* implode: the chars collected into a String, or the first error
implode(xs) ==
    LET cs == [i \in 1..Len(xs) |-> as_codepoint(xs[i])]
    IN  IF HasErr(cs) THEN FirstErr(cs) ELSE Ok([i \in 1..Len(xs) |-> cs[i][2]])

\* the native filter "explode": try_as_str, then explode collected to an array
ExplodeRun(v, bits) ==
    IF v[1] # "Str" THEN Err(<<"Type", v, "string">>)
    ELSE LET cs == explode(v[2], bits)
         IN  IF HasErr(cs) THEN FirstErr(cs)
             ELSE Ok(ValArr([i \in 1..Len(cs) |-> cs[i][2]]))

\* the native filter "implode": into_vec, then implode, then V::from
ImplodeRun(v) ==
    IF v[1] # "Arr" THEN Err(<<"Type", v, "array">>)
    ELSE LET c == implode(v[2])
         IN  IF IsErr(c) THEN c ELSE Ok(ValStr(c[2]))

MaxStrLen == 3

Chars == {0, 65, SurrogateMin - 1, SurrogateMax + 1, CharMax}

RECURSIVE StringsOfLen(_)
StringsOfLen(n) ==
    IF n = 0 THEN {<<>>}
    ELSE {Append(s, c) : s \in StringsOfLen(n - 1), c \in Chars}

Strings == UNION {StringsOfLen(n) : n \in 0..MaxStrLen}

StrInputs == {ValStr(s) : s \in Strings} \cup {ValNull, ValInt(65)}

InitStr ==
    /\ str \in StrInputs
    /\ isizeBits \in {32, 64}
    /\ arr = None
    /\ sout = None

\* str | explode
StrExplode ==
    /\ arr = None
    /\ arr' = ExplodeRun(str, isizeBits)
    /\ UNCHANGED <<str, sout, isizeBits>>

\* ... | implode: an error of explode goes by, a value is imploded
StrImplode ==
    /\ arr # None
    /\ sout = None
    /\ sout' = IF IsErr(arr) THEN arr ELSE ImplodeRun(arr[2])
    /\ UNCHANGED <<str, arr, isizeBits>>

-----------------------------------------------------------------------------
(* range($from; $to; $by) of jaq-std: the iterator that from_fn gives, driven *)
(* one next() at a time                                                        *)

\* by.partial_cmp(&V::from(0)).unwrap_or(Equal)
RangeCmp(by) ==
    IF ValLess(ValInt(0), by) THEN "Greater"
    ELSE IF ValLess(by, ValInt(0)) THEN "Less"
    ELSE "Equal"

\* faulty variant of RangeContinues: the bound itself is still yielded when
\* counting up or down
RangeContinuesToBound(cmp, x, to) ==
    CASE cmp = "Greater" -> ValLess(x, to) \/ x = to
      [] cmp = "Less" -> ValLess(to, x) \/ x = to
      [] cmp = "Equal" -> x # to

\* the test of the closure: Greater => x < to, Less => x > to, Equal => x != to
RangeContinues(cmp, x, to) ==
    CASE cmp = "Greater" -> ValLess(x, to)
      [] cmp = "Less" -> ValLess(to, x)
      [] cmp = "Equal" -> x # to

\* faulty variant of RangeNext: from is left as it is when it is an error
RangeNextErrStays(from, to, by) ==
    IF IsOk(from)
    THEN IF RangeContinues(RangeCmp(by), from[2], to)
         THEN <<Some(from), MathOpRun("Add", from[2], by)>>
         ELSE <<None, from>>
    ELSE <<Some(from), from>>

\* one call of the closure given to from_fn: <<what it returns, the new from>>
RangeNext(from, to, by) ==
    IF IsOk(from)
    THEN IF RangeContinues(RangeCmp(by), from[2], to)
         THEN <<Some(from), MathOpRun("Add", from[2], by)>>
         ELSE <<None, from>>
    ELSE <<Some(from), Ok(to)>>

MaxRangeCalls == 6

RangeInts == {ValInt(i) : i \in (0 - 2)..2}

RangeFroms == RangeInts \cup {ValStr(KeyX), ValArr(<<>>)}

RangeTos == RangeInts \cup {ValStr(KeyX), ValArr(<<ValInt(1), ValInt(1)>>)}

RangeBys == RangeInts \cup {ValBool(TRUE), ValArr(<<ValInt(1)>>)}

\* range(Ok(from), to, by) with the three variables popped by base_run
InitRange ==
    /\ range_arg \in RangeFroms
    /\ range_from = Ok(range_arg)
    /\ range_to \in RangeTos
    /\ range_by \in RangeBys
    /\ range_ret = <<>>

\* next() is called on the iterator
RangeNextCall ==
    /\ Len(range_ret) < MaxRangeCalls
    /\ \E y \in {RangeNext(range_from, range_to, range_by)} :
          /\ range_ret' = Append(range_ret, y[1])
          /\ range_from' = y[2]
    /\ UNCHANGED <<range_arg, range_to, range_by>>

-----------------------------------------------------------------------------
(* The parts of the state a specification does not use stay as they are here *)

RecIdle ==
    /\ rfilter = Empty
    /\ rctx = <<>>
    /\ rvals = <<>>
    /\ remitted = <<>>
    /\ rdone = FALSE
    /\ rroot = ValNull
    /\ rcollected = None

PullIdle ==
    /\ iter = NotRun
    /\ taken = <<>>
    /\ rbegun = FALSE

ListIdle ==
    /\ heap = <<>>
    /\ lst = 0
    /\ hist = <<>>
    /\ ret = None

SubstIdle ==
    /\ stree = Id
    /\ sargs = <<>>
    /\ sres = None

RangeIdle ==
    /\ range_arg = None
    /\ range_from = None
    /\ range_to = None
    /\ range_by = None
    /\ range_ret = <<>>

RcIdle ==
    /\ strong = <<>>
    /\ held = <<>>

StrIdle ==
    /\ str = ValStr(<<>>)
    /\ arr = None
    /\ sout = None
    /\ isizeBits = 64

-----------------------------------------------------------------------------
(* Specification of Filter::run and of the native limit *)

InitSpecRun ==
    /\ RangeIdle /\ RcIdle
    /\ InitRun
    /\ PullIdle
    /\ RecIdle /\ ListIdle /\ SubstIdle /\ StrIdle

NextRun ==
    \/ RunFilter /\ UNCHANGED <<rangeVars, rcVars, pullVars, recVars, listVars, substVars, strVars>>
    \/ RunNativeLimit /\ UNCHANGED <<rangeVars, rcVars, pullVars, recVars, listVars, substVars, strVars>>

SpecRun == InitSpecRun /\ [][NextRun]_vars

-----------------------------------------------------------------------------
(* Specification of the Recurse iterator *)

InitSpecRecurse ==
    /\ RangeIdle /\ RcIdle
    /\ InitRecurse
    /\ PullIdle
    /\ RunIdle /\ ListIdle /\ SubstIdle /\ StrIdle

NextRecurse ==
    RecurseNextCall /\ UNCHANGED <<rangeVars, rcVars, pullVars, runVars, listVars, substVars, strVars>>

SpecRecurse == InitSpecRecurse /\ [][NextRecurse]_vars

-----------------------------------------------------------------------------
(* Specification of Filter::subst *)

InitSpecSubst ==
    /\ RangeIdle /\ RcIdle
    /\ InitSubst
    /\ PullIdle
    /\ RunIdle /\ RecIdle /\ ListIdle /\ StrIdle

NextSubst ==
    SubstCall /\ UNCHANGED <<rangeVars, rcVars, pullVars, runVars, recVars, listVars, strVars>>

SpecSubst == InitSpecSubst /\ [][NextSubst]_vars

-----------------------------------------------------------------------------
(* Specification of the list *)

InitSpecList ==
    /\ RangeIdle /\ RcIdle
    /\ InitList
    /\ PullIdle
    /\ RunIdle /\ RecIdle /\ SubstIdle /\ StrIdle

NextList ==
    \/ ListCons /\ UNCHANGED <<rangeVars, rcVars, pullVars, runVars, recVars, substVars, strVars>>
    \/ ListIter /\ UNCHANGED <<rangeVars, rcVars, pullVars, runVars, recVars, substVars, strVars>>
    \/ ListSkip /\ UNCHANGED <<rangeVars, rcVars, pullVars, runVars, recVars, substVars, strVars>>
    \/ ListGet /\ UNCHANGED <<rangeVars, rcVars, pullVars, runVars, recVars, substVars, strVars>>

SpecList == InitSpecList /\ [][NextList]_vars

-----------------------------------------------------------------------------
(* Specification of explode | implode *)

InitSpecStr ==
    /\ RangeIdle /\ RcIdle
    /\ InitStr
    /\ PullIdle
    /\ RunIdle /\ RecIdle /\ ListIdle /\ SubstIdle

NextStr ==
    \/ StrExplode /\ UNCHANGED <<rangeVars, rcVars, pullVars, runVars, recVars, listVars, substVars>>
    \/ StrImplode /\ UNCHANGED <<rangeVars, rcVars, pullVars, runVars, recVars, listVars, substVars>>

SpecStr == InitSpecStr /\ [][NextStr]_vars

-----------------------------------------------------------------------------
(* Specification of assignments and updates *)

InitSpecUpdate ==
    /\ RangeIdle /\ RcIdle
    /\ InitUpdate
    /\ PullIdle
    /\ RecIdle /\ ListIdle /\ SubstIdle /\ StrIdle

NextUpdate ==
    RunFilter /\ UNCHANGED <<rangeVars, rcVars, pullVars, recVars, listVars, substVars, strVars>>

SpecUpdate == InitSpecUpdate /\ [][NextUpdate]_vars

-----------------------------------------------------------------------------
(* Specification of Last, of the native last and of Reduce *)

InitSpecFold ==
    /\ RangeIdle /\ RcIdle
    /\ InitFold
    /\ PullIdle
    /\ RecIdle /\ ListIdle /\ SubstIdle /\ StrIdle

NextFold ==
    \/ RunFilter /\ UNCHANGED <<rangeVars, rcVars, pullVars, recVars, listVars, substVars, strVars>>
    \/ RunNativeLast /\ UNCHANGED <<rangeVars, rcVars, pullVars, recVars, listVars, substVars, strVars>>

SpecFold == InitSpecFold /\ [][NextFold]_vars

-----------------------------------------------------------------------------
(* Specification of pipes with binding *)

InitSpecBind ==
    /\ RangeIdle /\ RcIdle
    /\ InitBind
    /\ PullIdle
    /\ RecIdle /\ ListIdle /\ SubstIdle /\ StrIdle

NextBind ==
    RunFilter /\ UNCHANGED <<rangeVars, rcVars, pullVars, recVars, listVars, substVars, strVars>>

SpecBind == InitSpecBind /\ [][NextBind]_vars

-----------------------------------------------------------------------------
(* Specification of Filter::run on `and` and `or` *)

InitSpecLogic ==
    /\ RangeIdle /\ RcIdle
    /\ InitLogic
    /\ PullIdle
    /\ RecIdle /\ ListIdle /\ SubstIdle /\ StrIdle

NextLogic ==
    RunFilter /\ UNCHANGED <<rangeVars, rcVars, pullVars, recVars, listVars, substVars, strVars>>

SpecLogic == InitSpecLogic /\ [][NextLogic]_vars

-----------------------------------------------------------------------------
(* Specification of Filter::run on object constructions *)

InitSpecObject ==
    /\ RangeIdle /\ RcIdle
    /\ InitObject
    /\ PullIdle
    /\ RecIdle /\ ListIdle /\ SubstIdle /\ StrIdle

NextObject ==
    RunFilter /\ UNCHANGED <<rangeVars, rcVars, pullVars, recVars, listVars, substVars, strVars>>

SpecObject == InitSpecObject /\ [][NextObject]_vars

-----------------------------------------------------------------------------
(* Specification of the native sort_by and group_by *)

InitSpecSort ==
    /\ RangeIdle /\ RcIdle
    /\ InitSort
    /\ PullIdle
    /\ RecIdle /\ ListIdle /\ SubstIdle /\ StrIdle

NextSort ==
    \/ RunSortBy /\ UNCHANGED <<rangeVars, rcVars, pullVars, recVars, listVars, substVars, strVars>>
    \/ RunGroupBy /\ UNCHANGED <<rangeVars, rcVars, pullVars, recVars, listVars, substVars, strVars>>

SpecSort == InitSpecSort /\ [][NextSort]_vars

-----------------------------------------------------------------------------
(* Specification of the native range *)

InitSpecRange ==
    /\ InitRange
    /\ RcIdle
    /\ PullIdle
    /\ RunIdle /\ RecIdle /\ ListIdle /\ SubstIdle /\ StrIdle

NextRange ==
    RangeNextCall
    /\ UNCHANGED <<rcVars, pullVars, runVars, recVars, listVars, substVars, strVars>>

SpecRange == InitSpecRange /\ [][NextRange]_vars

-----------------------------------------------------------------------------
(* Specification of the handles of the list *)

InitSpecHandles ==
    /\ InitHandles
    /\ lst = 0 /\ hist = <<>>
    /\ RangeIdle
    /\ PullIdle
    /\ RunIdle /\ RecIdle /\ SubstIdle /\ StrIdle

NextHandles ==
    \/ HandleNew /\ UNCHANGED <<lst, hist, rangeVars, pullVars, runVars, recVars, substVars, strVars>>
    \/ HandleCons /\ UNCHANGED <<lst, hist, rangeVars, pullVars, runVars, recVars, substVars, strVars>>
    \/ HandleExtend /\ UNCHANGED <<lst, hist, rangeVars, pullVars, runVars, recVars, substVars, strVars>>
    \/ HandleClone /\ UNCHANGED <<lst, hist, rangeVars, pullVars, runVars, recVars, substVars, strVars>>
    \/ HandleSkip /\ UNCHANGED <<lst, hist, rangeVars, pullVars, runVars, recVars, substVars, strVars>>
    \/ HandlePop /\ UNCHANGED <<lst, hist, rangeVars, pullVars, runVars, recVars, substVars, strVars>>
    \/ HandleDrop /\ UNCHANGED <<lst, hist, rangeVars, pullVars, runVars, recVars, substVars, strVars>>

SpecHandles == InitSpecHandles /\ [][NextHandles]_vars

-----------------------------------------------------------------------------
(* Specification of the consumer of a Comma *)

InitSpecPull ==
    /\ RangeIdle /\ RcIdle
    /\ InitPull
    /\ RecIdle /\ ListIdle /\ SubstIdle /\ StrIdle

NextPull ==
    \/ PullCall /\ UNCHANGED <<rangeVars, rcVars, recVars, listVars, substVars, strVars>>
    \/ PullNext /\ UNCHANGED <<rangeVars, rcVars, recVars, listVars, substVars, strVars>>

SpecPull == InitSpecPull /\ [][NextPull]_vars

-----------------------------------------------------------------------------
(* Properties of Filter::run, checked under SpecRun *)

Ran == out # NotRun

\* the elements of s that satisfy Keep, in their order
Subsequence(s, Keep(_)) ==
    LET idx == {i \in 1..Len(s) : Keep(s[i])}
        nth(n) == CHOOSE i \in idx : Cardinality({j \in idx : j <= i}) = n
    IN  [n \in 1..Cardinality(idx) |-> s[nth(n)]]

\* an Err of s is followed, later, by an Ok
OkAfterErr(s) ==
    \E i \in 1..Len(s) : \E j \in (i + 1)..Len(s) : IsErr(s[i]) /\ IsOk(s[j])

\* prog is a | (b | c), both pipes without binding
IsPipeRight(p) ==
    /\ p[1] = "Pipe" /\ ~p[3]
    /\ p[4][1] = "Pipe" /\ ~p[4][3]

\* C1: pipes without binding associate: a | (b | c) yields the same sequence
\* of Ok and Err elements, in the same order, as (a | b) | c on the same
\* context and input.
C1_PipeAssociative ==
    (Ran /\ IsPipeRight(prog)) =>
        out = Run(Pipe(Pipe(prog[2], FALSE, prog[4][2]), FALSE, prog[4][4]),
                  cv[1], cv[2])

\* a | (b | c) has run, a yields several values, and the output holds an Err
\* followed by an Ok
C1_Witness ==
    /\ Ran /\ IsPipeRight(prog)
    /\ Len(Run(prog[2], cv[1], cv[2])) >= 2
    /\ Len(out) >= 3 /\ OkAfterErr(out)

\* prog is (a, b) | c, the pipe without binding
IsCommaPipe(p) ==
    p[1] = "Pipe" /\ ~p[3] /\ p[2][1] = "Comma"

\* C2: comma distributes over a pipe without binding: (a, b) | c yields the
\* outputs of a | c followed by the outputs of b | c.
C2_CommaDistributes ==
    (Ran /\ IsCommaPipe(prog)) =>
        out = Run(Pipe(prog[2][2], FALSE, prog[4]), cv[1], cv[2])
              \o Run(Pipe(prog[2][3], FALSE, prog[4]), cv[1], cv[2])

\* (a, b) | c has run where a | c yields an Err and b | c yields something
C2_Witness ==
    /\ Ran /\ IsCommaPipe(prog)
    /\ HasErr(Run(Pipe(prog[2][2], FALSE, prog[4]), cv[1], cv[2]))
    /\ Run(Pipe(prog[2][3], FALSE, prog[4]), cv[1], cv[2]) # <<>>
    /\ prog[2][2] # prog[2][3]

\* C3: Try(f) yields no Err, and yields exactly the Ok elements of f in their
\* order: an Err of f does not cut off the Ok elements after it.
C3_TrySwallows ==
    (Ran /\ prog[1] = "Try") =>
        /\ \A i \in 1..Len(out) : IsOk(out[i])
        /\ out = Subsequence(Run(prog[2], cv[1], cv[2]), IsOk)

\* Try(f) has run on an f that yields an Err and, after it, an Ok
C3_Witness ==
    /\ Ran /\ prog[1] = "Try"
    /\ OkAfterErr(Run(prog[2], cv[1], cv[2]))
    /\ out # <<>>

\* C4: Math(l, op, r) (and Ord) yields one element per pair of an element of
\* l and an element of r, m * k in all, the pairs of one element of l
\* together and in the order of r; the element of a pair with an Err in
\* either coordinate is an Err, and of a pair of Ok values the operator's
\* result.
C4_CartesianCardinality ==
    (Ran /\ prog[1] \in {"Math", "Ord"}) =>
        LET ls == Run(prog[2], cv[1], cv[2])
            rs == Run(prog[4], cv[1], cv[2])
            m == Len(ls)
            k == Len(rs)
        IN  /\ Len(out) = m * k
            /\ \A i \in 1..m : \A j \in 1..k :
                   LET e == out[(i - 1) * k + j]
                   IN  IF IsErr(ls[i]) \/ IsErr(rs[j]) THEN IsErr(e)
                       ELSE e = IF prog[1] = "Math"
                                THEN MathOpRun(prog[3], ls[i][2], rs[j][2])
                                ELSE Ok(ValBool(OrdOpRun(prog[3], ls[i][2], rs[j][2])))

\* Math has run with several elements on the left, one of them an Err, and
\* exactly one on the right: the path that does not clone the left side
C4_Witness ==
    /\ Ran /\ prog[1] = "Math"
    /\ Len(Run(prog[4], cv[1], cv[2])) = 1
    /\ Len(Run(prog[2], cv[1], cv[2])) >= 2
    /\ HasErr(out) /\ \E i \in 1..Len(out) : IsOk(out[i])

\* the count expression of a Limit yields the single integer n
CountIs(p, n) ==
    Run(p[2], cv[1], cv[2]) = <<Ok(ValInt(n))>>

\* s is the first max(0, n) elements of fs, all of fs if it has fewer
IsPrefixOfLength(s, fs, n) ==
    /\ Len(s) = (IF n <= 0 THEN 0 ELSE IF n <= Len(fs) THEN n ELSE Len(fs))
    /\ \A i \in 1..Len(s) : s[i] = fs[i]

\* C5: for a count that yields the single integer n, limit(n; f) yields the
\* first max(0, n) elements of f, in order: at most n for n >= 0, none for
\* n <= 0. This holds of the Limit node and of the native limit of jaq-std.
C5_LimitBound ==
    \A n \in (0 - 2)..(MaxLimit + 1) :
        (prog[1] = "Limit" /\ CountIs(prog, n)) =>
            /\ Ran => IsPrefixOfLength(out, Run(prog[3], cv[1], cv[2]), n)
            /\ nout # NotRun => IsPrefixOfLength(nout, Run(prog[3], cv[1], cv[2]), n)

\* both limits have run with a count of 2 on a filter that yields more
C5_Witness ==
    /\ Ran /\ nout # NotRun
    /\ prog[1] = "Limit" /\ CountIs(prog, 2)
    /\ Len(Run(prog[3], cv[1], cv[2])) > 2
    /\ Len(out) = 2 /\ Len(nout) = 2

\* C7: Alt(l, r) yields the Err elements and the true Ok elements of l if
\* there are any, and otherwise what r yields on the input; an Err of l is
\* kept and does not make r run.
C7_AltKeepsErrors ==
    (Ran /\ prog[1] = "Alt") =>
        LET kept == Subsequence(Run(prog[2], cv[1], cv[2]),
                                LAMBDA y : IsErr(y) \/ as_bool(y[2]))
        IN  IF kept # <<>> THEN out = kept
            ELSE out = Run(prog[3], cv[1], cv[2])

\* Alt has run on an l that yields an Err and a false value: the Err is in
\* the output, the false value is not
C7_Witness ==
    /\ Ran /\ prog[1] = "Alt"
    /\ HasErr(out)
    /\ Len(out) < Len(Run(prog[2], cv[1], cv[2]))
    /\ Run(prog[3], cv[1], cv[2]) # <<>>

-----------------------------------------------------------------------------
(* Properties of Recurse, checked under SpecRecurse *)

\* the preorder traversal of the tree f induces below v: v, then the subtree
\* of each child in the order f yields them; an Err child is a leaf
RECURSIVE Preorder(_, _, _)
Preorder(f, ctx, v) ==
    LET cs == Run(f, ctx, v)
    IN  <<Ok(v)>> \o Concat([i \in 1..Len(cs) |->
            IF IsOk(cs[i]) THEN Preorder(f, ctx, cs[i][2]) ELSE <<cs[i]>>])

IsPrefix(s, t) ==
    Len(s) <= Len(t) /\ \A i \in 1..Len(s) : s[i] = t[i]

\* C6: on a finite tree, Recurse(f) yields Ok(v) first, and in all the
\* preorder traversal of the tree f induces: what next() has returned so far
\* is a prefix of the traversal, and all of it once next() returns None.
C6_RecursePreorder ==
    /\ (remitted # <<>>) => remitted[1] = Ok(rroot)
    /\ IsPrefix(remitted, Preorder(rfilter, rctx, rroot))
    /\ rdone => remitted = Preorder(rfilter, rctx, rroot)
    /\ rdone => Run(Recurse(rfilter), rctx, rroot) = remitted

\* the iterator has ended on a tree where a first child has descendants of
\* its own and a later sibling follows them
C6_Witness ==
    /\ rdone
    /\ Len(remitted) >= 5
    /\ LET cs == Run(rfilter, rctx, rroot)
       IN  /\ Len(cs) >= 2
           /\ IsOk(cs[1]) /\ Run(rfilter, rctx, cs[1][2]) # <<>>
           /\ cs[1] # cs[2]

-----------------------------------------------------------------------------
(* Properties of Filter::subst, checked under SpecSubst *)

\* the filters inside a path part
PartFilters(p) ==
    IF p[1] = "Index" THEN <<p[2]>>
    ELSE (IF p[2] = None THEN <<>> ELSE <<p[2]>>)
         \o (IF p[3] = None THEN <<>> ELSE <<p[3]>>)

\* the filters directly inside a node of a filter tree, left to right
Children(t) ==
    CASE t[1] \in LeafTags \cup {"Arg", "Panic"} -> <<>>
      [] t[1] = "Array" -> IF t[2] = None THEN <<>> ELSE <<t[2]>>
      [] t[1] \in {"Object"} ->
            Concat([i \in 1..Len(t[2]) |-> <<t[2][i][1], t[2][i][2]>>])
      [] t[1] \in UnaryTags -> <<t[2]>>
      [] t[1] \in InfixTags -> <<t[2], t[4]>>
      [] t[1] \in BinaryTags -> <<t[2], t[3]>>
      [] t[1] = "IfThenElse" ->
            Concat([i \in 1..Len(t[2]) |-> <<t[2][i][1], t[2][i][2]>>]) \o <<t[3]>>
      [] t[1] = "Reduce" -> <<t[2], t[3], t[4]>>
      [] t[1] = "Path" ->
            <<t[2]>> \o Concat([i \in 1..Len(t[3]) |-> PartFilters(t[3][i][1])])
      [] t[1] = "SkipCtx" -> <<t[3]>>

\* what a node holds besides its children: the variant, and its literal,
\* flag, operator, count, number of pairs or path shape
Label(t) ==
    CASE t[1] \in LeafTags \cup {"Arg", "Panic"} -> t
      [] t[1] = "Array" -> <<"Array", t[2] = None>>
      [] t[1] \in {"Object", "IfThenElse"} -> <<t[1], Len(t[2])>>
      [] t[1] \in UnaryTags \cup BinaryTags \cup {"Reduce"} -> <<t[1]>>
      [] t[1] \in InfixTags -> <<t[1], t[3]>>
      [] t[1] = "Path" ->
            <<"Path", [i \in 1..Len(t[3]) |->
                LET p == t[3][i][1]
                IN  <<p[1],
                      IF p[1] = "Range" THEN <<p[2] = None, p[3] = None>> ELSE <<>>,
                      t[3][i][2]>>]>>
      [] t[1] = "SkipCtx" -> <<"SkipCtx", t[2]>>

\* no node of t is an Arg
RECURSIVE NoArg(_)
NoArg(t) ==
    /\ t[1] # "Arg"
    /\ \A i \in 1..Len(Children(t)) : NoArg(Children(t)[i])

\* every Arg(i) of t has i < n
RECURSIVE ArgsBelow(_, _)
ArgsBelow(t, n) ==
    /\ t[1] = "Arg" => t[2] < n
    /\ \A i \in 1..Len(Children(t)) : ArgsBelow(Children(t)[i], n)

\* r is t with a[i] at the places of Arg(i) and the same everywhere else
RECURSIVE Corresponds(_, _, _)
Corresponds(t, r, a) ==
    IF t[1] = "Arg" THEN r = a[t[2] + 1]
    ELSE /\ Label(r) = Label(t)
         /\ Len(Children(r)) = Len(Children(t))
         /\ \A i \in 1..Len(Children(t)) :
                Corresponds(Children(t)[i], Children(r)[i], a)

SubstDefined ==
    /\ sres # None
    /\ \A i \in 1..Len(sargs) : NoArg(sargs[i])
    /\ ArgsBelow(stree, Len(sargs))

\* C8: when no argument holds an Arg and every Arg(i) of the tree has
\* i < len(args), subst(t, args) holds no Arg, has args[i] exactly where t
\* had Arg(i), and is t everywhere else (variants, literals, Var(n),
\* operators, bind flags, SkipCtx counts, path shape).
C8_SubstClosed ==
    SubstDefined =>
        /\ NoArg(sres)
        /\ Corresponds(stree, sres, sargs)

\* subst has returned on a tree that holds Arg(0) and Arg(1) below other
\* nodes, called with two different closed arguments
C8_Witness ==
    /\ SubstDefined
    /\ stree[1] = "Pipe" /\ stree[2][1] = "Try" /\ stree[2][2] = Arg(1)
    /\ ~NoArg(stree[4])
    /\ Len(sargs) = 2 /\ sargs[1] # sargs[2] /\ sargs[1][1] = "Comma"

-----------------------------------------------------------------------------
(* Properties of the list, checked under SpecList *)

\* C9: for a list built by cons with elements e_0 (most recent) .. e_{k-1}:
\* iter yields e_0..e_{k-1} in that order; skip(n) is the list e_n..e_{k-1}
\* for n <= k and the empty list for n >= k; get(n) is the head of skip(n),
\* Some(e_n) for n < k and None for n >= k.
C9_ListIterSkipGet ==
    LET k == Len(hist)
        n == ret[2]
    IN  /\ ret[1] = "Iter" => ret[3] = hist
        /\ ret[1] = "Skip" =>
            /\ n <= k => ret[3] = SubSeq(hist, n + 1, k)
            /\ n >= k => ret[3] = <<>>
        /\ ret[1] = "Get" =>
            /\ ret[3] = ListHead(heap, Skip(heap, lst, n))
            /\ n < k => ret[3] = Some(hist[n + 1])
            /\ n >= k => ret[3] = None

\* skip(1) on the list of the unit test, new().cons(2).cons(1).cons(0)
C9_Witness ==
    /\ hist = <<0, 1, 2>>
    /\ ret = <<"Skip", 1, <<1, 2>>>>

-----------------------------------------------------------------------------
(* Properties of explode and implode, checked under SpecStr *)

\* C10: for every string s, explode yields an array of one integer per
\* character, in order, and implode of that array succeeds and returns s.
C10_ImplodeExplode ==
    str[1] = "Str" =>
        /\ arr # None =>
            /\ IsOk(arr)
            /\ arr[2][1] = "Arr"
            /\ Len(arr[2][2]) = Len(str[2])
            /\ \A i \in 1..Len(str[2]) : arr[2][2][i] = ValInt(str[2][i])
        /\ sout # None => sout = Ok(str)

\* a string holding the last char below the surrogates, the first above
\* them and the greatest char has been exploded and imploded
C10_Witness ==
    /\ str = ValStr(<<SurrogateMin - 1, SurrogateMax + 1, CharMax>>)
    /\ isizeBits = 32
    /\ arr # None
    /\ sout # None

-----------------------------------------------------------------------------
(* Properties of Filter::update, checked under SpecUpdate *)

IsUpdateProgram == prog[1] \in {"Assign", "Update"}

\* update has an arm for every node of the path filter q
RECURSIVE HandledPath(_)
HandledPath(q) ==
    CASE q[1] \in {"Id", "Empty"} -> TRUE
      [] q[1] \in {"Path", "Recurse"} -> HandledPath(q[2])
      [] q[1] = "Pipe" -> (q[3] \/ HandledPath(q[2])) /\ HandledPath(q[4])
      [] q[1] = "Comma" -> HandledPath(q[2]) /\ HandledPath(q[3])
      [] q[1] = "IfThenElse" ->
            /\ \A i \in 1..Len(q[2]) : HandledPath(q[2][i][2])
            /\ HandledPath(q[3])
      [] OTHER -> FALSE

\* f yields exactly one element on every input
RECURSIVE OneElement(_)
OneElement(f) ==
    \/ f[1] \in {"Id", "Int", "Str", "Error", "Var"}
    \/ f[1] \in {"Math", "Ord"} /\ OneElement(f[2]) /\ OneElement(f[4])

\* update has an arm for every node of q, and every filter it runs on the
\* way (the left side of a pipe with binding, the conditions) yields one element
RECURSIVE SingleRuns(_)
SingleRuns(q) ==
    CASE q[1] \in {"Id", "Empty"} -> TRUE
      [] q[1] \in {"Path", "Recurse"} -> SingleRuns(q[2])
      [] q[1] = "Pipe" ->
            (IF q[3] THEN OneElement(q[2]) ELSE SingleRuns(q[2])) /\ SingleRuns(q[4])
      [] q[1] = "Comma" -> SingleRuns(q[2]) /\ SingleRuns(q[3])
      [] q[1] = "IfThenElse" ->
            /\ \A i \in 1..Len(q[2]) : OneElement(q[2][i][1]) /\ SingleRuns(q[2][i][2])
            /\ SingleRuns(q[3])
      [] OTHER -> FALSE

C12_AssignIdempotent ==
    (Ran /\ prog[1] = "Pipe" /\ prog[2] \in KeyAssigns /\ prog[4] = prog[2]) =>
        LET first == Run(prog[2], cv[1], cv[2])
        IN  ~HasErr(first) =>
                /\ out = first
                /\ Len(out) = 1
                /\ PathCollect(prog[2][2][3], cv[1], out[1][2], Id)
                       = Collect(Run(prog[2][3], cv[1], cv[2]))

\* `.x = 1 | .x = 1` has run on an object that had an array at x and a second key
C12_Witness ==
    /\ Ran
    /\ prog = Pipe(Assign(DotX, FilterInt(1)), FALSE, Assign(DotX, FilterInt(1)))
    /\ cv[2][1] = "Obj" /\ Len(cv[2][2]) = 2
    /\ out = <<Ok(ValObj(<<<<KeyX, ValInt(1)>>, <<KeyY, ValInt(2)>>>>))>>

\* `., (l | recurse(l))`
RecurseExpansion(l) == Comma(Id, Pipe(l, FALSE, Recurse(l)))

\* C20: in update mode Recurse(l) is its expansion `., (l | recurse(l))`: for
\* every l, context, input and replace both yield the same sequence, replace
\* being applied to a value before it is applied inside the replaced value.
C20_UpdateRecurseExpansion ==
    (Ran /\ IsUpdateProgram /\ prog[2][1] = "Recurse") =>
        out = Run(<<prog[1], RecurseExpansion(prog[2][2]), prog[3]>>, cv[1], cv[2])

\* `.. |= first(.[]?)` has run on [1, [2]]: the array is replaced by 1 first,
\* and 1 has nothing inside
C20_Witness ==
    /\ Ran
    /\ prog = Update(Recurse(IterOpt), First(IterOpt))
    /\ cv[2] = ValArr(<<ValInt(1), ValArr(<<ValInt(2)>>)>>)
    /\ out = <<Ok(ValInt(1))>>

-----------------------------------------------------------------------------
(* Properties of the consumer of a Comma, checked under SpecPull *)

\* C13: the consumer of run(Comma(l, r)) is given the elements of run(l) and
\* then those of run(r), and nothing of r's stream is evaluated before the
\* consumer has been given every element of l
C13_CommaConsumerLazy ==
    iter # NotRun =>
        LET ls == Run(prog[2], cv[1], cv[2])
            rs == Run(prog[3], cv[1], cv[2])
        IN  /\ Len(taken) <= Len(ls \o rs)
            /\ taken = SubSeq(ls \o rs, 1, Len(taken))
            /\ out # NotRun => out = ls \o rs
            /\ rbegun => Len(taken) >= Len(ls)

-----------------------------------------------------------------------------
(* Errors in a pipe, checked under SpecRun *)

\* the rule of `l | r` on the stream ls of l, element by element: an Ok(y)
\* gives the stream of r on y, an Err gives itself
RECURSIVE PipeRule(_, _, _)
PipeRule(ls, r, ctx) ==
    IF ls = <<>> THEN <<>>
    ELSE (IF IsOk(Head(ls)) THEN Run(r, ctx, Head(ls)[2]) ELSE <<Head(ls)>>)
         \o PipeRule(Tail(ls), r, ctx)

\* where the part of the output that belongs to the i-th element of ls begins
PipeOffset(ls, r, ctx, i) ==
    Len(PipeRule(SubSeq(ls, 1, i - 1), r, ctx))

\* C14: an Err of l does not abort `l | r`: the output is the concatenation,
\* in the order of l's elements, of the Err itself for an Err and of the
\* stream of r on y, in the unchanged context, for an Ok(y); so that each Err
\* of l stands once, at the place of its element
C14_PipeKeepsErrors ==
    (Ran /\ prog[1] = "Pipe" /\ ~prog[3]) =>
        LET ls == Run(prog[2], cv[1], cv[2])
        IN  /\ out = PipeRule(ls, prog[4], cv[1])
            /\ \A i \in 1..Len(ls) :
                  IF IsErr(ls[i])
                  THEN out[PipeOffset(ls, prog[4], cv[1], i) + 1] = ls[i]
                  ELSE SubSeq(out, PipeOffset(ls, prog[4], cv[1], i) + 1,
                              PipeOffset(ls, prog[4], cv[1], i + 1))
                       = Run(prog[4], cv[1], ls[i][2])

\* a pipe has run whose left side yields an Err and then an Ok on which the
\* right side yields something
C14_Witness ==
    /\ Ran /\ prog[1] = "Pipe" /\ ~prog[3]
    /\ LET ls == Run(prog[2], cv[1], cv[2])
       IN  \E i \in 1..Len(ls) : \E j \in (i + 1)..Len(ls) :
              /\ IsErr(ls[i]) /\ IsOk(ls[j])
              /\ Run(prog[4], cv[1], ls[j][2]) # <<>>
              /\ Len(out) > PipeOffset(ls, prog[4], cv[1], j)

-----------------------------------------------------------------------------
(* Properties of Last and Reduce, checked under SpecFold *)

\* the index of the first Err of s
FirstErrAt(s) ==
    CHOOSE i \in 1..Len(s) : IsErr(s[i]) /\ \A j \in 1..(i - 1) : ~IsErr(s[j])

\* C15: run(Last(f)) yields at most one element: nothing when run(f) is
\* empty, the last element when run(f) holds no Err, and otherwise the first
\* Err of run(f) and no Ok; the fold stops at that Err and leaves the later
\* elements in the iterator; the native last of jaq-std yields the same
C15_LastOrFirstErr ==
    (Ran /\ prog[1] = "Last") =>
        LET fs == Run(prog[2], cv[1], cv[2])
            fold == LastTryFold(Build(prog[2], cv[1], cv[2]), None)
        IN  /\ Len(out) <= 1
            /\ fs = <<>> => out = <<>>
            /\ (fs # <<>> /\ ~HasErr(fs)) => out = <<fs[Len(fs)]>>
            /\ HasErr(fs) =>
                  /\ out = <<fs[FirstErrAt(fs)]>>
                  /\ fold[1] = fs[FirstErrAt(fs)]
                  /\ Drain(fold[2]) = SubSeq(fs, FirstErrAt(fs) + 1, Len(fs))
            /\ nout # NotRun => nout = out

\* Last has run, and the native last, on a stream with an Ok, then an Err, then
\* more elements
C15_Witness ==
    /\ Ran /\ prog[1] = "Last" /\ nout # NotRun
    /\ LET fs == Run(prog[2], cv[1], cv[2])
       IN  /\ Len(fs) >= 3 /\ IsOk(fs[1]) /\ IsErr(fs[2]) /\ IsOk(fs[Len(fs)])
           /\ out = <<fs[2]>>

\* the accumulator list after the elements xs, from the list accs: each Ok(x)
\* replaces the list by the streams of f on its values, one after the other,
\* with x bound; <<"Failed", e>> at the first Err met on the way
RECURSIVE ReduceRule(_, _, _, _)
ReduceRule(accs, xs, f, ctx) ==
    IF xs = <<>> THEN <<"Done", accs>>
    ELSE IF ~IsOk(Head(xs)) THEN <<"Failed", Head(xs)>>
    ELSE LET stream == Concat([i \in 1..Len(accs) |->
                           Run(f, CtxCons(Head(xs)[2], ctx), accs[i])])
         IN  IF HasErr(stream) THEN <<"Failed", FirstErr(stream)>>
             ELSE ReduceRule([i \in 1..Len(stream) |-> stream[i][2]], Tail(xs), f, ctx)

\* C16: run(Reduce(xs, init, f)) yields, when nothing fails, the list that
\* starts as the outputs of init and is replaced, for each x of xs in order,
\* by the streams of f with x bound on its values; when init, xs or a step of
\* f yields an Err, the one element of the output is the first such Err
C16_ReduceFolds ==
    (Ran /\ prog[1] = "Reduce") =>
        LET inits == Run(prog[3], cv[1], cv[2])
            rule == ReduceRule([i \in 1..Len(inits) |-> inits[i][2]],
                               Run(prog[2], cv[1], cv[2]), prog[4], cv[1])
        IN  IF HasErr(inits) THEN out = <<FirstErr(inits)>>
            ELSE IF rule[1] = "Failed" THEN out = <<rule[2]>> /\ IsErr(rule[2])
            ELSE /\ out = [i \in 1..Len(rule[2]) |-> Ok(rule[2][i])]
                 /\ ~HasErr(out)

\* a Reduce has run without an Err from two initial values over two elements
\* and yields more than two values
C16_Witness ==
    /\ Ran /\ prog[1] = "Reduce"
    /\ Len(Run(prog[3], cv[1], cv[2])) = 2
    /\ Len(Run(prog[2], cv[1], cv[2])) = 2
    /\ Len(out) > 2 /\ ~HasErr(out)

-----------------------------------------------------------------------------
(* Properties of pipes with binding, checked under SpecBind *)

\* the general rule of `l as $x | r` on the stream ls of l: an Ok(y) gives
\* the stream of r on val with y bound, an Err gives itself
BindRule(ls, r, ctx, val) ==
    Concat([i \in 1..Len(ls) |->
        IF IsOk(ls[i]) THEN Run(r, CtxCons(ls[i][2], ctx), val) ELSE <<ls[i]>>])

\* the fast path is entered: the upper bound of l's size hint is 1
FastPath ==
    SizeHintUpper(prog[2], cv[1], cv[2]) = 1

\* C17: `l as $x | r` yields what the general rule yields, whether or not the
\* fast path for a size hint of at most one element is taken; an l whose size
\* hint has the upper bound 1 and that yields an element yields no second one,
\* so that the assertion of the fast path holds
C17_BindFastPath ==
    (Ran /\ prog[1] = "Pipe" /\ prog[3]) =>
        LET ls == Run(prog[2], cv[1], cv[2])
        IN  /\ out = BindRule(ls, prog[4], cv[1], cv[2])
            /\ \A i \in 1..Len(out) : out[i][1] # "Panic"
            /\ (FastPath /\ Len(ls) >= 1) => Len(ls) = 1
            /\ Drain(Build(prog, cv[1], cv[2])) = out

\* the fast path has been taken on a left side that is not a single once(..):
\* `(false, 1) // .` has the size hint 1 after its head is taken, and the
\* right side has run on the one element
C17_Witness ==
    /\ Ran /\ prog[1] = "Pipe" /\ prog[3]
    /\ prog[2] = Alt(Comma(Ord(Id, "Ne", Id), FilterInt(1)), Id)
    /\ FastPath
    /\ Len(Run(prog[2], cv[1], cv[2])) = 1
    /\ prog[4] = Comma(Var(0), Id)
    /\ out = <<Ok(ValInt(1)), Ok(cv[2])>>

-----------------------------------------------------------------------------
(* Steps of Recurse::next, checked under SpecRecurse *)

\* what one call of next() does to a worklist with top on top of rest
RecurseStep ==
    LET top == rvals[Len(rvals)]
        rest == SubSeq(rvals, 1, Len(rvals) - 1)
        cs == Run(rfilter, rctx, top[2])
    IN  /\ ~rdone'
        /\ remitted' = Append(remitted, top)
        /\ Len(rvals') >= Len(rest)
        /\ SubSeq(rvals', 1, Len(rest)) = rest
        /\ IsErr(top) => (rvals' = rest /\ rcollected' = None)
        /\ IsOk(top) =>
              /\ Len(rvals') = Len(rest) + Len(cs)
              /\ \A k \in 1..Len(cs) : rvals'[Len(rvals') - k + 1] = cs[k]

\* C18: every call of next() on a worklist that is not empty pops one
\* element and returns it; an Err is returned as it is and f is not run on
\* it, so that nothing is pushed; for an Ok, the outputs of f are pushed so
\* that the first of them is popped first; next() returns None exactly on
\* the empty worklist
C18_RecurseSteps ==
    [][IF rvals = <<>>
       THEN rdone' /\ remitted' = remitted /\ rvals' = rvals
       ELSE RecurseStep]_vars

\* the iterator has ended; it returned an Err, then an Ok that was pushed
\* before the Err was popped, and then the children of that Ok
C18_Witness ==
    /\ rdone
    /\ \E i \in 1..(Len(remitted) - 2) :
          /\ IsErr(remitted[i])
          /\ IsOk(remitted[i + 1])
          /\ Run(rfilter, rctx, remitted[i + 1][2]) # <<>>
          /\ remitted[i + 2] = Run(rfilter, rctx, remitted[i + 1][2])[1]

\* C19: no call of next() collects the whole stream of f on a value before
\* it returns the element it popped
C19_RecurseNoCollect ==
    rcollected = None

-----------------------------------------------------------------------------
(* Properties of Logic, checked under SpecLogic *)

\* how many elements the i-th element of ls gives to the output of
\* Logic(l, stop, r), rs being the stream of r
LogicShare(ls, stop, rs, i) ==
    IF IsOk(ls[i]) /\ as_bool(ls[i][2]) # stop THEN Len(rs) ELSE 1

\* where the part of the output that belongs to the i-th element of ls begins
RECURSIVE LogicOffset(_, _, _, _)
LogicOffset(ls, stop, rs, i) ==
    IF i <= 1 THEN 0
    ELSE LogicOffset(ls, stop, rs, i - 1) + LogicShare(ls, stop, rs, i - 1)

\* C21: Logic(l, stop, r) short-circuits: in the order of l's elements, an
\* Ok(lv) with as_bool(lv) = stop gives exactly Ok(Bool(stop)) whatever r
\* does, any other Ok(lv) gives one element per element of r, Ok(Bool(as_bool(rv)))
\* for an Ok(rv) and the Err itself for an Err, and an Err of l gives itself;
\* every Ok of the output is a Bool
C21_LogicShortCircuits ==
    (Ran /\ prog[1] = "Logic") =>
        LET ls == Run(prog[2], cv[1], cv[2])
            rs == Run(prog[4], cv[1], cv[2])
            stop == prog[3]
            off(i) == LogicOffset(ls, stop, rs, i)
        IN  /\ Len(out) = off(Len(ls) + 1)
            /\ \A i \in 1..Len(ls) :
                  IF IsErr(ls[i]) THEN out[off(i) + 1] = ls[i]
                  ELSE IF as_bool(ls[i][2]) = stop
                  THEN out[off(i) + 1] = Ok(ValBool(stop))
                  ELSE \A j \in 1..Len(rs) :
                          IF IsOk(rs[j])
                          THEN out[off(i) + j] = Ok(ValBool(as_bool(rs[j][2])))
                          ELSE out[off(i) + j] = rs[j]
            /\ \A k \in 1..Len(out) : IsOk(out[k]) => out[k][2][1] = "Bool"

\* a Logic has run whose right side yields an Ok and an Err, and
\* whose left side yields an Err, a stopping value and a value that does not
\* stop
C21_Witness ==
    /\ Ran /\ prog[1] = "Logic"
    /\ LET ls == Run(prog[2], cv[1], cv[2])
           rs == Run(prog[4], cv[1], cv[2])
       IN  /\ \E i \in 1..Len(ls) : IsErr(ls[i])
           /\ \E i \in 1..Len(ls) : IsOk(ls[i]) /\ as_bool(ls[i][2]) = prog[3]
           /\ \E i \in 1..Len(ls) : IsOk(ls[i]) /\ as_bool(ls[i][2]) # prog[3]
           /\ \E j \in 1..Len(rs) : IsErr(rs[j])
           /\ \E j \in 1..Len(rs) : IsOk(rs[j])

-----------------------------------------------------------------------------
(* Properties of Object, checked under SpecObject *)

\* the streams of the key and of the value filter of the p-th pair of prog
ObjectKs(p) == Run(prog[2][p][1], cv[1], cv[2])
ObjectVs(p) == Run(prog[2][p][2], cv[1], cv[2])

\* the number of tuples the pairs from the p-th on have
RECURSIVE ObjectCount(_)
ObjectCount(p) ==
    IF p > Len(prog[2]) THEN 1
    ELSE Len(ObjectKs(p)) * Len(ObjectVs(p)) * ObjectCount(p + 1)

\* the key and the value the t-th output tuple takes from the p-th pair
ObjectKeyAt(t, p) ==
    ObjectKs(p)[(((t - 1) \div ObjectCount(p + 1)) % (Len(ObjectKs(p)) * Len(ObjectVs(p))))
                \div Len(ObjectVs(p)) + 1]
ObjectValueAt(t, p) ==
    ObjectVs(p)[(((t - 1) \div ObjectCount(p + 1)) % Len(ObjectVs(p))) + 1]

\* the t-th tuple has an Err among its coordinates or a key that is no string
ObjectTupleFails(t) ==
    \E p \in 1..Len(prog[2]) :
        \/ IsErr(ObjectKeyAt(t, p))
        \/ IsErr(ObjectValueAt(t, p))
        \/ IsOk(ObjectKeyAt(t, p)) /\ ObjectKeyAt(t, p)[2][1] # "Str"

\* C23: an Object with n >= 1 pairs yields one element per tuple of the product
\* of the pairs' (key outputs x value outputs), so nothing when a key or value
\* filter yields nothing; the element of a tuple is an Err exactly when a
\* coordinate is an Err or a key is no string, and otherwise one object that
\* has, for each key of the tuple, the value of the last pair with that key,
\* its keys in the order of the pairs (the entries themselves, in pair order,
\* when the keys differ); an Object without pairs yields one empty object
C23_ObjectProduct ==
    (Ran /\ prog[1] = "Object") =>
        IF prog[2] = <<>> THEN out = <<Ok(ValObj(<<>>))>>
        ELSE /\ Len(out) = ObjectCount(1)
             /\ \A t \in 1..Len(out) :
                   IF ObjectTupleFails(t) THEN IsErr(out[t])
                   ELSE LET n == Len(prog[2])
                            key(p) == ObjectKeyAt(t, p)[2][2]
                            first == {p \in 1..n : \A q \in 1..(p - 1) : key(q) # key(p)}
                            last(k) == CHOOSE p \in 1..n :
                                          key(p) = k /\ \A q \in (p + 1)..n : key(q) # k
                            kvs == out[t][2][2]
                        IN  /\ IsOk(out[t]) /\ out[t][2][1] = "Obj"
                            /\ Len(kvs) = Cardinality(first)
                            /\ \A i \in 1..Len(kvs) :
                                  \E p \in first :
                                     /\ Cardinality({q \in first : q <= p}) = i
                                     /\ kvs[i] = <<key(p), ObjectValueAt(t, last(key(p)))[2]>>
                            /\ first = 1..n =>
                                  kvs = [p \in 1..n |-> <<key(p), ObjectValueAt(t, p)[2]>>]

\* an Object of three pairs has run and yielded, after an Err, an object of
\* three entries
C23_Witness ==
    /\ Ran /\ prog[1] = "Object" /\ Len(prog[2]) = 3
    /\ \E t \in 1..Len(out) : \E u \in (t + 1)..Len(out) :
          /\ IsErr(out[t])
          /\ IsOk(out[u]) /\ Len(out[u][2][2]) = 3

-----------------------------------------------------------------------------
(* Properties of sort_by and group_by, checked under SpecSort *)

\* the key list of the i-th element of the input array, or the first error
\* of the key filter on it
SortKeyOf(i) == Collect(Run(prog, cv[1], cv[2][2][i]))

\* the permutations of 1..n
PermutationsOf(n) ==
    {pi \in [1..n -> 1..n] : \A i \in 1..n : \E j \in 1..n : pi[j] = i}

\* what sort_by is to return on the input array: without an error among the
\* key evaluations the elements reordered by a permutation that puts the key
\* lists in ascending order and keeps the input order of equal ones, and
\* otherwise the error of the first element that has one
SortByAsStated(r) ==
    LET xs == cv[2][2]
        n == Len(xs)
    IN  IF \A i \in 1..n : IsOk(SortKeyOf(i))
        THEN /\ Len(r) = 1 /\ IsOk(r[1]) /\ r[1][2][1] = "Arr"
             /\ \E pi \in PermutationsOf(n) :
                   /\ r[1][2][2] = [i \in 1..n |-> xs[pi[i]]]
                   /\ \A i \in 1..n : \A j \in (i + 1)..n :
                         /\ ~KeyLess(SortKeyOf(pi[j])[2], SortKeyOf(pi[i])[2])
                         /\ SortKeyOf(pi[i]) = SortKeyOf(pi[j]) => pi[i] < pi[j]
        ELSE r = <<SortKeyOf(CHOOSE i \in 1..n :
                       IsErr(SortKeyOf(i)) /\ \A j \in 1..(i - 1) : IsOk(SortKeyOf(j)))>>

C22_SortByFromTwo ==
    (out # NotRun /\ cv[2][1] = "Arr") =>
        IF Len(cv[2][2]) >= 2 THEN SortByAsStated(out) ELSE out = <<Ok(cv[2])>>

\* sort_by has returned an array of one element on which the key filter fails
C22_SortByOneKept ==
    /\ out # NotRun /\ cv[2][1] = "Arr" /\ Len(cv[2][2]) = 1
    /\ IsErr(SortKeyOf(1))
    /\ out = <<Ok(cv[2])>>

\* the key list of the value x, or the first error of the key filter on it
GroupKeyOf(x) == Collect(Run(prog, cv[1], x))

-----------------------------------------------------------------------------
(* Properties of the native range, checked under SpecRange *)

\* n times None
Nones(n) == [i \in 1..n |-> None]

\* the documented definition,
\*   $from | if $by > 0 then while(. < $to; . + $by)
\*         elif $by < 0 then while(. > $to; . + $by)
\*           else            while(. != $to; . + $by) end,
\* with while(c; u) the stream `if c then ., (u | while(c; u)) else empty end`:
\* what the first n calls of next() return on its stream from x, an error of
\* `. + $by` being yielded and ending the stream
RECURSIVE RangeDef(_, _, _, _)
RangeDef(x, to, by, n) ==
    LET c == IF OrdOpRun("Gt", by, ValInt(0)) THEN OrdOpRun("Lt", x, to)
             ELSE IF OrdOpRun("Lt", by, ValInt(0)) THEN OrdOpRun("Gt", x, to)
             ELSE OrdOpRun("Ne", x, to)
        u == MathOpRun("Add", x, by)
    IN  IF n = 0 THEN <<>>
        ELSE IF ~c THEN Nones(n)
        ELSE IF IsOk(u) THEN <<Some(Ok(x))>> \o RangeDef(u[2], to, by, n - 1)
        ELSE IF n = 1 THEN <<Some(Ok(x))>>
        ELSE <<Some(Ok(x)), Some(u)>> \o Nones(n - 2)

\* the number of elements of from, from + by, ... before to is reached or
\* passed, for integers and by # 0
RangeLength(from, to, by) ==
    IF by > 0 /\ from < to THEN (to - from + by - 1) \div by
    ELSE IF by < 0 /\ from > to THEN (from - to - by - 1) \div (0 - by)
    ELSE 0

\* C24: the calls of next() on the native range return what the documented
\* definition yields on $from, and None from its end on; over integers it
\* therefore yields, for by # 0, the RangeLength values from + k * by and then
\* None (nothing when from = to), and for by = 0 and from # to it yields from
\* at every call
C24_RangeAsDocumented ==
    /\ range_ret = RangeDef(range_arg, range_to, range_by, Len(range_ret))
    /\ (range_arg[1] = "Int" /\ range_to[1] = "Int" /\ range_by[1] = "Int") =>
          LET from == range_arg[2]
              to == range_to[2]
              by == range_by[2]
          IN  IF by # 0
              THEN \A k \in 1..Len(range_ret) :
                      IF k <= RangeLength(from, to, by)
                      THEN range_ret[k] = Some(Ok(ValInt(from + (k - 1) * by)))
                      ELSE range_ret[k] = None
              ELSE \A k \in 1..Len(range_ret) :
                      range_ret[k] = IF from = to THEN None ELSE Some(Ok(ValInt(from)))

\* range(-2; 2; 2) has yielded -2 and 0 and then returned None twice
C24_Witness ==
    /\ range_arg = ValInt(0 - 2) /\ range_to = ValInt(2) /\ range_by = ValInt(2)
    /\ range_ret = <<Some(Ok(ValInt(0 - 2))), Some(Ok(ValInt(0))), None, None>>

\* C25: when x + $by fails, the values up to and including x have been
\* yielded, the error is yielded once, just after x, and every later call
\* returns None, whatever the sign of $by
C25_RangeErrorOnce ==
    \A k \in 1..Len(range_ret) :
        (range_ret[k] # None /\ IsErr(range_ret[k][2])) =>
            /\ k > 1
            /\ \A j \in 1..(k - 1) : range_ret[j] # None /\ IsOk(range_ret[j][2])
            /\ range_ret[k][2] = MathOpRun("Add", range_ret[k - 1][2][2], range_by)
            /\ \A j \in (k + 1)..Len(range_ret) : range_ret[j] = None

\* a range that counts down has yielded a value, then the error of the
\* addition, and has returned None since
C25_Witness ==
    /\ RangeCmp(range_by) = "Less"
    /\ Len(range_ret) = MaxRangeCalls
    /\ range_ret[1] = Some(Ok(range_arg))
    /\ range_ret[2] # None /\ IsErr(range_ret[2][2])
    /\ \A j \in 3..Len(range_ret) : range_ret[j] = None

-----------------------------------------------------------------------------
(* Properties of the handles of the list, checked under SpecHandles *)

\* C26: the list is persistent: whatever new, cons, extend, skip, clone, pop
\* and drop have done since, no node behind a handle that is held has been
\* freed and the elements seen through the handle are those seen when it was
\* obtained; pop on a list that showed <<x>> \o l returns x and a list that
\* shows l, whether the node was shared or not, and pop on a list that
\* showed nothing returns None
C26_ListPersistent ==
    /\ \A i \in 1..Len(held) :
          /\ Intact(heap, held[i][1])
          /\ IterCollect(heap, held[i][1]) = held[i][2]
    /\ ret # None =>
          IF ret[2] = <<>> THEN ret[4] = None
          ELSE ret[4] = Some(<<Head(ret[2]), Tail(ret[2])>>)

\* pop has returned (x, l) from a shared node while another handle still
\* shows <<x>> \o l, l not empty
C26_Witness ==
    /\ ret # None /\ ret[3] /\ Len(ret[2]) >= 2
    /\ \E i \in 1..Len(held) : held[i][2] = ret[2]
    /\ \E i \in 1..Len(held) : held[i][2] = Tail(ret[2])

=========================================================================
